---- MODULE Spec2Model ----
(***************************************************************************)
(* Model of robottelo/ssh.py: the scoped ssh connection (get_client,       *)
(* get_connection), the one-shot command(), execute_command's output       *)
(* normalisation, the SSHCommandResult constructor, is_ssh_pub_key,        *)
(* add_authorized_key, upload_file and download_file.                      *)
(*                                                                         *)
(* Python values are tagged records [kind, v]: bytes are sequences of      *)
(* byte codes, text is a sequence of one-character strings, a list is a    *)
(* sequence of texts.  The interpreter is Python 2 (six.PY2), the only     *)
(* one under which the module's str/bytes handling runs.                   *)
(***************************************************************************)
EXTENDS Integers, Sequences, FiniteSets, TLC

\* ------------------------------------------------------------------ bounds
\* Most chunks the remote process writes to stdout before it exits.
MaxChunks == 4
\* Most commands a caller runs on one scoped connection.
MaxRuns == 2
\* Most pieces a caller puts into a key string.
MaxKeyPieces == 5
\* Most calls of add_authorized_key, one after the other.
MaxInstalls == 2
\* Most calls of upload_file and download_file, one after the other.
MaxTransfers == 2
\* The ticks after which the timeout of an execute_command call has elapsed.
MaxTicks == 2

\* ------------------------------------------------------------ Python values
PyNone == [kind |-> "none", v |-> <<>>]
PyBytes(b) == [kind |-> "bytes", v |-> b]
PyText(t) == [kind |-> "text", v |-> t]
PyList(l) == [kind |-> "list", v |-> l]
PyDict(d) == [kind |-> "dict", v |-> d]
PyParsed(parser, arg) == [kind |-> "parsed", v |-> <<parser, arg>>]
UnicodeDecodeError == [kind |-> "raise", v |-> <<"UnicodeDecodeError">>]

\* Python truth value of stdout/stderr: None and every empty container are false.
Truthy(x) == x.kind # "none" /\ x.v # <<>>

\* output_format=None, and the truth value of an output_format.
FmtNone == "<None>"
FmtTruthy(fmt) == fmt # FmtNone /\ fmt # ""

\* ------------------------------------------------------------- characters
ESC == "ESC"
Digits == {"3"}
\* The byte codes of the model's alphabet and the characters they decode to
\* (ASCII); 255 never occurs in well-formed UTF-8.
Chr ==
    (27 :> ESC) @@ (91 :> "[") @@ (51 :> "3") @@ (109 :> "m") @@ (10 :> "\n") @@ (34 :> "\"")
    @@ (104 :> "h") @@ (101 :> "e") @@ (108 :> "l") @@ (111 :> "o")

six_PY2 == TRUE

\* text.decode('utf-8') under Python 2: raises on a byte that is no UTF-8.
decode_to_utf8(text) ==
    IF six_PY2
    THEN IF \E i \in DOMAIN text.v : text.v[i] \notin DOMAIN Chr
         THEN UnicodeDecodeError
         ELSE PyText([i \in DOMAIN text.v |-> Chr[text.v[i]]])
    ELSE text

\* ------------------------------------------------------------ re / str ops
\* Length of the match of r'\x1b\[\d\d?m' at position i of s, 0 when none.
\* \d\d? is greedy: two digits are tried first, then one.
regex_match(s, i) ==
    IF i + 3 <= Len(s) /\ s[i] = ESC /\ s[i+1] = "[" /\ s[i+2] \in Digits
    THEN IF i + 4 <= Len(s) /\ s[i+3] \in Digits /\ s[i+4] = "m" THEN 5
         ELSE IF s[i+3] = "m" THEN 4
         ELSE 0
    ELSE 0

\* regex.sub('', s): one left-to-right pass over the leftmost non-overlapping
\* matches; the result is not scanned again.
RECURSIVE regex_sub_from(_, _)
regex_sub_from(s, i) ==
    IF i > Len(s) THEN <<>>
    ELSE IF regex_match(s, i) > 0 THEN regex_sub_from(s, i + regex_match(s, i))
    ELSE <<s[i]>> \o regex_sub_from(s, i + 1)

regex_sub(s) == regex_sub_from(s, 1)

\* s.replace('""', ''): one left-to-right pass over non-overlapping occurrences.
RECURSIVE replace_quotes_from(_, _)
replace_quotes_from(s, i) ==
    IF i > Len(s) THEN <<>>
    ELSE IF i + 1 <= Len(s) /\ s[i] = "\"" /\ s[i+1] = "\"" THEN replace_quotes_from(s, i + 2)
    ELSE <<s[i]>> \o replace_quotes_from(s, i + 1)

replace_quotes(s) == replace_quotes_from(s, 1)

\* u''.join(s) over the characters of a text.
RECURSIVE join_chars(_)
join_chars(s) == IF s = <<>> THEN <<>> ELSE <<Head(s)>> \o join_chars(Tail(s))

\* s.split('\n'): k newlines give k + 1 pieces, empty ones included.
RECURSIVE split_from(_, _, _)
split_from(s, i, cur) ==
    IF i > Len(s) THEN <<cur>>
    ELSE IF s[i] = "\n" THEN <<cur>> \o split_from(s, i + 1, <<>>)
    ELSE split_from(s, i + 1, Append(cur, s[i]))

\* split_lines without the empty piece after a final newline (str.splitlines).
split_lines_no_trailing(s) ==
    LET pieces == split_from(s, 1, <<>>)
    IN IF pieces[Len(pieces)] = <<>> THEN SubSeq(pieces, 1, Len(pieces) - 1) ELSE pieces

split_lines(s) == split_from(s, 1, <<>>)

startswith_bracket(line) == Len(line) >= 1 /\ line[1] = "["

\* filter_lines that also drops empty lines.
RECURSIVE filter_lines_drop_empty(_)
filter_lines_drop_empty(lines) ==
    IF lines = <<>> THEN <<>>
    ELSE IF startswith_bracket(Head(lines)) \/ Head(lines) = <<>>
         THEN filter_lines_drop_empty(Tail(lines))
    ELSE <<regex_sub(Head(lines))>> \o filter_lines_drop_empty(Tail(lines))

\* [regex.sub('', line) for line in lines if not line.startswith('[')]
RECURSIVE filter_lines(_)
filter_lines(lines) ==
    IF lines = <<>> THEN <<>>
    ELSE IF startswith_bracket(Head(lines)) THEN filter_lines(Tail(lines))
    ELSE <<regex_sub(Head(lines))>> \o filter_lines(Tail(lines))

\* ---------------------------------------------------------- SSHCommandResult
\* hammer.parse_csv / hammer.parse_json: the parsed value is the record of the
\* call, parser name and argument.
parse_csv(stdout) == PyParsed("parse_csv", stdout)
parse_json(stdout) == PyParsed("parse_json", stdout)

\* The csv branch of the constructor.
csv_branch(stdout, output_format) ==
    IF output_format = "csv"
    THEN [stdout |-> IF Truthy(stdout) THEN parse_csv(stdout) ELSE PyDict(<<>>),
          calls |-> IF Truthy(stdout) THEN <<"parse_csv">> ELSE <<>>]
    ELSE [stdout |-> stdout, calls |-> <<>>]

\* json_branch without the 'if stdout else None': the parser is always called.
json_branch_always_parses(self, stdout, output_format) ==
    IF output_format = "json"
    THEN [stdout |-> parse_json(stdout), calls |-> self.calls \o <<"parse_json">>]
    ELSE self

\* The json branch of the constructor; it reads the constructor's argument
\* stdout, not self.stdout.
json_branch(self, stdout, output_format) ==
    IF output_format = "json"
    THEN [stdout |-> IF Truthy(stdout) THEN parse_json(stdout) ELSE PyNone,
          calls |-> self.calls \o (IF Truthy(stdout) THEN <<"parse_json">> ELSE <<>>)]
    ELSE self

\* parse_guard without the test of the return code.
parse_guard_any_status(return_code, output_format) == FmtTruthy(output_format)

\* Whether the constructor post-processes at all.
parse_guard(return_code, output_format) == FmtTruthy(output_format) /\ return_code = 0

\* SSHCommandResult(stdout, stderr, return_code, output_format); calls is the
\* sequence of parser invocations the constructor made.
SSHCommandResult(stdout, stderr, return_code, output_format) ==
    LET parsed == IF parse_guard(return_code, output_format)
                  THEN json_branch(csv_branch(stdout, output_format), stdout, output_format)
                  ELSE [stdout |-> stdout, calls |-> <<>>]
    IN [outcome |-> "returned",
        error |-> "",
        stdout |-> parsed.stdout,
        stderr |-> stderr,
        return_code |-> return_code,
        output_format |-> output_format,
        handed |-> stdout,
        calls |-> parsed.calls]

Raised(err) ==
    [outcome |-> "raised", error |-> err, stdout |-> PyNone, stderr |-> PyNone,
     return_code |-> 0, output_format |-> FmtNone, handed |-> PyNone, calls |-> <<>>]

\* ----------------------------------------------------------- execute_command
\* stdout after 'if stdout: stdout = decode_to_utf8(stdout)'.
decode_stdout(stdout) == IF Truthy(stdout) THEN decode_to_utf8(stdout) ELSE stdout

\* stderr after 'if stderr: stderr = regex.sub('', decode_to_utf8(stderr))'.
normalize_stderr(stderr) ==
    IF Truthy(stderr)
    THEN LET d == decode_to_utf8(stderr)
         IN IF d.kind = "raise" THEN d ELSE PyText(regex_sub(d.v))
    ELSE stderr

\* splits_lines with only "json" exempt.
splits_lines_plain_too(stdout, output_format) == Truthy(stdout) /\ output_format \notin {"json"}

\* splits_lines with "csv" exempt as well.
splits_lines_not_csv(stdout, output_format) ==
    Truthy(stdout) /\ output_format \notin {"json", "plain", "csv"}

\* splits_lines that does not look at whether there is any output.
splits_lines_empty_too(stdout, output_format) == output_format \notin {"json", "plain"}

\* Whether the decoded stdout is turned into a list of lines.
splits_lines(stdout, output_format) == Truthy(stdout) /\ output_format \notin {"json", "plain"}

\* The list of lines of a decoded stdout.
line_form(stdout) == PyList(filter_lines(split_lines(join_chars(replace_quotes(stdout.v)))))

\* stdout as handed to the SSHCommandResult constructor.
normalize_stdout(stdout, output_format) ==
    IF splits_lines(stdout, output_format) THEN line_form(stdout) ELSE stdout

\* execute_command that raises on a non-zero exit status (check_call style).
execute_command_checked(stdout, stderr, errorcode, output_format) ==
    LET out == decode_stdout(PyBytes(stdout))
        err == IF out.kind = "raise" THEN out ELSE normalize_stderr(PyBytes(stderr))
    IN IF errorcode # 0 THEN Raised("CalledProcessError")
       ELSE IF out.kind = "raise" THEN Raised(out.v[1])
       ELSE IF err.kind = "raise" THEN Raised(err.v[1])
       ELSE SSHCommandResult(normalize_stdout(out, output_format), err, errorcode, output_format)

\* execute_command once exec_command has returned: the channel delivered the
\* exit status errorcode and the bytes stdout and stderr.
execute_command(stdout, stderr, errorcode, output_format) ==
    LET out == decode_stdout(PyBytes(stdout))
        err == IF out.kind = "raise" THEN out ELSE normalize_stderr(PyBytes(stderr))
    IN IF out.kind = "raise" THEN Raised(out.v[1])
       ELSE IF err.kind = "raise" THEN Raised(err.v[1])
       ELSE SSHCommandResult(normalize_stdout(out, output_format), err, errorcode, output_format)

\* ------------------------------------------------------------ is_ssh_pub_key
PyBool(b) == [kind |-> "bool", v |-> <<b>>]
PyRaise(name) == [kind |-> "raise", v |-> <<name>>]

\* six.string_types under Python 2: str and unicode.
string_types == {"bytes", "text"}

\* The one character of the model that is not ASCII.
E_ACUTE == "U+00E9"
Whitespace == {" ", "\n"}

\* s.split(): the maximal runs of non-whitespace characters.
RECURSIVE split_whitespace_from(_, _, _)
split_whitespace_from(s, i, cur) ==
    IF i > Len(s) THEN (IF cur = <<>> THEN <<>> ELSE <<cur>>)
    ELSE IF s[i] \in Whitespace
    THEN (IF cur = <<>> THEN <<>> ELSE <<cur>>) \o split_whitespace_from(s, i + 1, <<>>)
    ELSE split_whitespace_from(s, i + 1, Append(cur, s[i]))

split_whitespace(s) == split_whitespace_from(s, 1, <<>>)

Base64Alphabet ==
    {"A", "B", "C", "D", "E", "F", "G", "H", "I", "J", "K", "L", "M", "N", "O", "P",
     "Q", "R", "S", "T", "U", "V", "W", "X", "Y", "Z", "a", "b", "c", "d", "e", "f",
     "g", "h", "i", "j", "k", "l", "m", "n", "o", "p", "q", "r", "s", "t", "u", "v",
     "w", "x", "y", "z", "0", "1", "2", "3", "4", "5", "6", "7", "8", "9", "+", "/"}

\* The first character of s at or after position i that is a base64 digit or
\* the pad, "" when there is none (binascii_find_valid).
RECURSIVE find_valid(_, _)
find_valid(s, i) ==
    IF i > Len(s) THEN ""
    ELSE IF s[i] \in Base64Alphabet \cup {"="} THEN s[i]
    ELSE find_valid(s, i + 1)

\* binascii.a2b_base64 on ASCII data, as base64.decodestring calls it: TRUE
\* when it returns, FALSE when it raises binascii.Error. Characters outside
\* the alphabet are skipped; a pad ends the data once two digits of a quad
\* have been read (and, after exactly two, another pad follows); the only
\* error is 'Incorrect padding', bits left over at the end.
RECURSIVE a2b_base64_from(_, _, _, _)
a2b_base64_from(s, i, quad_pos, leftbits) ==
    IF i > Len(s) THEN leftbits = 0
    ELSE IF s[i] = "="
    THEN IF quad_pos < 2 \/ (quad_pos = 2 /\ find_valid(s, i + 1) # "=")
         THEN a2b_base64_from(s, i + 1, quad_pos, leftbits)
         ELSE TRUE
    ELSE IF s[i] \notin Base64Alphabet THEN a2b_base64_from(s, i + 1, quad_pos, leftbits)
    ELSE a2b_base64_from(s, i + 1, (quad_pos + 1) % 4,
                         IF leftbits + 6 >= 8 THEN leftbits - 2 ELSE leftbits + 6)

a2b_base64(s) == a2b_base64_from(s, 1, 0, 0)

\* The key types is_ssh_pub_key accepts.
KeyTypes ==
    {<<"e", "c", "d", "s", "a", "-", "s", "h", "a", "2", "-", "n", "i", "s", "t", "p", "2", "5", "6">>,
     <<"s", "s", "h", "-", "d", "s", "s">>,
     <<"s", "s", "h", "-", "r", "s", "a">>,
     <<"s", "s", "h", "-", "e", "d", "2", "5", "5", "1", "9">>}

\* is_ssh_pub_key that answers False to a key that is no string.
is_ssh_pub_key_lenient(key) ==
    IF key.kind \notin string_types THEN PyBool(FALSE)
    ELSE LET tokens == split_whitespace(key.v)
         IN IF Len(tokens) # 3 THEN PyBool(FALSE)
            ELSE IF \E i \in DOMAIN tokens[2] : tokens[2][i] = E_ACUTE
            THEN PyRaise("UnicodeEncodeError")
            ELSE IF ~a2b_base64(tokens[2]) THEN PyBool(FALSE)
            ELSE PyBool(tokens[1] \in KeyTypes)

\* is_ssh_pub_key(key): ValueError for a key that is no string; False when
\* key.split() does not give three tokens or decodestring raises
\* binascii.Error; key_string.encode('ascii') raises on a non-ASCII character
\* and nothing catches it; otherwise whether the type is an accepted one.
is_ssh_pub_key(key) ==
    IF key.kind \notin string_types THEN PyRaise("ValueError")
    ELSE LET tokens == split_whitespace(key.v)
         IN IF Len(tokens) # 3 THEN PyBool(FALSE)
            ELSE IF \E i \in DOMAIN tokens[2] : tokens[2][i] = E_ACUTE
            THEN PyRaise("UnicodeEncodeError")
            ELSE IF ~a2b_base64(tokens[2]) THEN PyBool(FALSE)
            ELSE PyBool(tokens[1] \in KeyTypes)

\* -------------------------------------------------------- add_authorized_key
\* A file-like object whose read() returns content.
PyStream(content) == [kind |-> "stream", v |-> content]

\* s.strip(): s without its leading and trailing whitespace.
RECURSIVE strip(_)
strip(s) ==
    IF s = <<>> THEN s
    ELSE IF s[1] \in Whitespace THEN strip(Tail(s))
    ELSE IF s[Len(s)] \in Whitespace THEN strip(SubSeq(s, 1, Len(s) - 1))
    ELSE s

\* The local files there are, by path.
LocalFiles == (<<"k", ".", "p", "u", "b">> :> (<<"s", "s", "h", "-", "r", "s", "a", " ", "A", "A", "A", "A", " ", "a">> \o <<"\n">>))

\* Lines 165-177: the content of the key to install, or what is raised. The
\* validator is called on every key that has no read attribute, and what it
\* raises propagates.
resolve_key(key) ==
    IF key.kind = "stream" THEN PyText(strip(key.v))
    ELSE LET valid == is_ssh_pub_key(key)
         IN IF valid.kind = "raise" THEN valid
            ELSE IF valid = PyBool(TRUE) THEN PyText(strip(key.v))
            ELSE IF key.v \in DOMAIN LocalFiles THEN PyText(strip(LocalFiles[key.v]))
            ELSE PyRaise("AttributeError")

\* The basic regular expression pattern matches line at position j. The keys
\* of the model hold letters, digits, blanks, '-', '.' and '[': every
\* character stands for itself but '.', which stands for any character.
regex_at(pattern, line, j) ==
    /\ j + Len(pattern) - 1 <= Len(line)
    /\ \A i \in DOMAIN pattern : pattern[i] = "." \/ pattern[i] = line[j + i - 1]

\* Exit status of grep -q 'pattern' file: 2 when the pattern does not compile
\* (a '[' that no ']' closes), 0 when some line holds a match, 1 when none.
grep_q(pattern, lines) ==
    IF \E i \in DOMAIN pattern : pattern[i] = "[" THEN 2
    ELSE IF \E n \in DOMAIN lines : \E j \in 1..(Len(lines[n]) + 1) : regex_at(pattern, lines[n], j)
    THEN 0
    ELSE 1

\* The file after "grep -q '{key}' {dest} || echo '{key}' >> {dest}" has
\* exited with status: echo runs when grep's status is not 0, and the status
\* of the line is then echo's.
add_key(key, lines, status) ==
    IF grep_q(key, lines) # 0 /\ status = 0 THEN Append(lines, key) ELSE lines

\* The commands with the permissions set before the key is appended.
InstallerCommandsPermsFirst ==
    <<"mkdir -p ~/.ssh",
      "chmod 700 ~/.ssh",
      "grep -q '{key}' ~/.ssh/authorized_keys || echo '{key}' >> ~/.ssh/authorized_keys",
      "chmod 600 ~/.ssh/authorized_keys",
      "chown -R {ssh_user} ~/.ssh",
      "command -v restorecon && restorecon -RvF ~/.ssh || true">>

\* The six commands of the with-block at lines 183-199, in order.
InstallerCommands ==
    <<"mkdir -p ~/.ssh",
      "grep -q '{key}' ~/.ssh/authorized_keys || echo '{key}' >> ~/.ssh/authorized_keys",
      "chmod 700 ~/.ssh",
      "chmod 600 ~/.ssh/authorized_keys",
      "chown -R {ssh_user} ~/.ssh",
      "command -v restorecon && restorecon -RvF ~/.ssh || true">>

\* ------------------------------------------------ upload_file, download_file
\* os.path.basename(path): what follows the last '/'.
RECURSIVE basename(_)
basename(path) ==
    IF path = <<>> \/ path[Len(path)] = "/" THEN <<>>
    ELSE Append(basename(SubSeq(path, 1, Len(path) - 1)), path[Len(path)])

\* download_file that defaults local_file to the basename of remote_file.
default_local_file_basename(remote_file, local_file) ==
    IF local_file = PyNone THEN PyText(basename(remote_file)) ELSE local_file

\* Lines 229-230: 'if local_file is None: local_file = remote_file'.
default_local_file(remote_file, local_file) ==
    IF local_file = PyNone THEN PyText(remote_file) ELSE local_file

\* Lines 216-219: putfo for a file-like local_file, put for a path.
upload_method(local_file) == IF local_file.kind = "stream" THEN "putfo" ELSE "put"

\* sftp.put / sftp.putfo: the remote file at remotepath holds the bytes read
\* from the local side.
sftp_put(remote, remotepath, content) == [remote EXCEPT ![remotepath] = content]

\* A get that writes the local file in text mode: carriage returns are lost.
sftp_get_text(local, localpath, content) ==
    [local EXCEPT ![localpath] = PyBytes(SelectSeq(content.v, LAMBDA b : b # 13))]

\* sftp.get: the local file at localpath holds the bytes of the remote file.
sftp_get(local, localpath, content) == [local EXCEPT ![localpath] = content]

\* An sftp.close() placed after the transfer without try/finally.
sftp_close_without_finally(raising) == ~raising

\* 'finally: sftp.close()' of upload_file and download_file: whether
\* sftp.close() runs when the try block is left, raising or not.
finally_sftp_close(raising) == TRUE

\* ------------------------------------------------- connection parameters
\* A parameter passed as None.
Unset == "<None>"
\* A timeout the call does not pass at all (timeouts that are passed are
\* positive).
Omitted == 0

\* The defaults of timeout: get_client, get_connection and command; and
\* execute_command.
DefaultConnectTimeout == 10
DefaultCommandTimeout == 120

\* A timeout parameter with default d.
timeout_or(timeout, d) == IF timeout = Omitted THEN d ELSE timeout

\* Lines 79-95: what get_client passes to client.connect.
get_client(cfg, hostname, username, password, key_filename, timeout) ==
    [hostname |-> IF hostname = Unset THEN cfg.hostname ELSE hostname,
     username |-> IF username = Unset THEN cfg.ssh_username ELSE username,
     key_filename |-> IF key_filename = Unset THEN cfg.ssh_key ELSE key_filename,
     password |-> IF password = Unset THEN cfg.ssh_password ELSE password,
     timeout |-> timeout]

\* Line 258: 'hostname = hostname or settings.server.hostname'.
command_hostname(cfg, hostname) ==
    IF hostname = Unset \/ hostname = "" THEN cfg.hostname ELSE hostname

\* command() that leaves the timeout of execute_command at its default.
command_timeout_default(timeout) == DefaultCommandTimeout

\* Line 262: the timeout command() hands to execute_command.
command_timeout(timeout) == timeout

\* -------------------------------------------------------------------- state
\* One execute_command call taken alone. xpc: the remote process is "running"
\* or the call is "done"; xout, xerr: the bytes the process has written to the
\* channel's stdout and stderr; xchunks: the writes to stdout so far; xres:
\* what the call returned or raised.
VARIABLES xpc, xout, xchunks, xerr, xres
\* The callers. pc: where each caller is; op: the operation it called; held:
\* the client its with-block holds (an index of conns, 0 for none); conns:
\* every client whose connect succeeded; trace: the transport calls made for
\* each caller, in order; outcome: how the caller's operation ended; result:
\* the last SSHCommandResult the caller received; runs: the commands run in
\* its with-block; exits: the exit statuses the remote side delivered for the
\* caller's commands, in order; lastout: the stdout bytes it delivered for the
\* last of them.
VARIABLES pc, op, held, conns, trace, outcome, result, runs, exits, lastout

\* One is_ssh_pub_key call taken alone. kpc: the caller is "building" the
\* argument or the call is "done"; kkey: the argument; kn: the pieces the
\* caller has put into it; kres: what the call returned or raised.
VARIABLES kpc, kkey, kn, kres

\* add_authorized_key, called time after time by one caller. ipc: where the
\* current call is; ikey: its key argument; icontent: key_content once
\* resolved; issued: the commands it has run so far; ifailed: the first of
\* them that exited non-zero (0: none); iconns: the clients it has connected;
\* itrace: its transport calls, in order; iout: how it ended; icalls: the
\* calls ended so far; iprev: the key content of the call before it and
\* whether that call returned with every command exiting 0; authorized_keys:
\* the lines of the remote ~/.ssh/authorized_keys.
VARIABLES ipc, ikey, icontent, issued, ifailed, iconns, itrace, iout, icalls, iprev,
          authorized_keys

\* upload_file and download_file, called time after time by one caller. tpc:
\* where the current call is; targs: the operation, its remote_file, the
\* local_file it was given and the local_file it uses; tconns: every client
\* connected so far; ttrace: the transport calls of the current call, in
\* order; tsftp: its sftp channel, "none", "open" or "closed"; tout: how it
\* ended; tcalls: the calls ended so far; twritten: the side and path the
\* transfer wrote.
VARIABLES tpc, targs, tconns, ttrace, tsftp, tout, tcalls, twritten
\* tlocal, tremote: the local and the remote files, by path (None: no such
\* file); tprev: the arguments of the call before the current one and how it
\* ended.
VARIABLES tlocal, tremote, tprev

\* The parameters of one caller's calls. settings: the configuration's server
\* section; ppc: "idle", in a "session" (with-block) or "done"; pargs: the
\* arguments of the current call; pconfig: settings as it was when the call
\* was made; pconnect: what client.connect was called with; pexec: the
\* timeout the last execute_command was called with.
VARIABLES settings, ppc, pargs, pconfig, pconnect, pexec

\* Two add_authorized_key calls running at once against one account. rpc:
\* where each call is ("echo": the remote shell of its second command has run
\* grep and not yet the right-hand side of ||); rkey: its key_content;
\* rissued: the commands of the six it has completed; rgrep: the exit status
\* its grep -q delivered; rstatus: the exit status of its second command;
\* rfile: the lines of the remote ~/.ssh/authorized_keys.
VARIABLES rpc, rkey, rissued, rgrep, rstatus, rfile

\* xelapsed: the time gone by since execute_command was called, in ticks.
VARIABLES xelapsed

rvars == <<rpc, rkey, rissued, rgrep, rstatus, rfile>>

wvars == <<xelapsed>>

cvars == <<pc, op, held, conns, trace, outcome, result, runs, exits, lastout>>

xvars == <<xpc, xout, xchunks, xerr, xres>>

kvars == <<kpc, kkey, kn, kres>>

pvars == <<settings, ppc, pargs, pconfig, pconnect, pexec>>

tvars == <<tpc, targs, tconns, ttrace, tsftp, tout, tcalls, twritten, tlocal, tremote, tprev>>

ivars == <<ipc, ikey, icontent, issued, ifailed, iconns, itrace, iout, icalls, iprev,
          authorized_keys>>

\* ------------------------------------------- one execute_command call, alone

\* What the remote process writes to stdout at a time: a single byte, the
\* control-sequence introducer ESC [, or a whole colour sequence ESC [ 3 m.
StdoutChunks ==
    {<<91>>, <<51>>, <<109>>, <<10>>, <<34>>, <<255>>, <<27, 91>>, <<27, 91, 51, 109>>}

\* What it writes to stderr, at most once.
StderrChunks == {<<27, 91, 51, 109, 109>>, <<255>>}

\* The exit statuses and output formats a call is made with.
ExitStatuses == {0, 1}
OutputFormats == {FmtNone, "json", "csv", "plain", "list"}

NoResult == Raised("<pending>")

InitExec ==
    /\ xpc = "running"
    /\ xout = <<>>
    /\ xchunks = 0
    /\ xerr = <<>>
    /\ xres = NoResult

RemoteWriteStdout(chunk) ==
    /\ xpc = "running"
    /\ xchunks < MaxChunks
    /\ xout' = xout \o chunk
    /\ xchunks' = xchunks + 1
    /\ UNCHANGED <<xpc, xerr, xres>>
    /\ UNCHANGED <<cvars, kvars, ivars, tvars, pvars, rvars, wvars>>

RemoteWriteStderr(chunk) ==
    /\ xpc = "running"
    /\ xerr = <<>>
    /\ xerr' = chunk
    /\ UNCHANGED <<xpc, xout, xchunks, xres>>
    /\ UNCHANGED <<cvars, kvars, ivars, tvars, pvars, rvars, wvars>>

\* The remote process exits with errorcode and execute_command returns or raises.
ExecuteReturns(errorcode, output_format) ==
    /\ xpc = "running"
    /\ xpc' = "done"
    /\ xres' = execute_command(xout, xerr, errorcode, output_format)
    /\ UNCHANGED <<xout, xchunks, xerr>>
    /\ UNCHANGED <<cvars, kvars, ivars, tvars, pvars, rvars, wvars>>

NextExec ==
    \/ \E chunk \in StdoutChunks : RemoteWriteStdout(chunk)
    \/ \E chunk \in StderrChunks : RemoteWriteStderr(chunk)
    \/ \E errorcode \in ExitStatuses, output_format \in OutputFormats :
          ExecuteReturns(errorcode, output_format)

\* ------------------------------------------- one is_ssh_pub_key call, alone

\* What the caller puts into a key string at a time: a key type, accepted or
\* not; a blank; base64 text, whole, padded or cut short; text that is no
\* base64; a character that is no ASCII.
KeyPieces ==
    {<<"s", "s", "h", "-", "r", "s", "a">>, <<"s", "s", "h", "-", "x">>, <<" ">>,
     <<"A", "A", "A", "A">>, <<"A", "A", "=", "=">>, <<"A", "A">>,
     <<"!", "!", "!", "!">>, <<E_ACUTE>>}

\* The arguments that are no string: None, a number, a list.
NonTextKeys == {PyNone, [kind |-> "int", v |-> <<0>>], PyList(<<>>)}

InitKey ==
    /\ kpc = "building"
    /\ kkey = PyText(<<>>)
    /\ kn = 0
    /\ kres = PyNone

CallerWritesKey(piece) ==
    /\ kpc = "building"
    /\ kkey.kind = "text"
    /\ kn < MaxKeyPieces
    /\ kkey' = PyText(kkey.v \o piece)
    /\ kn' = kn + 1
    /\ UNCHANGED <<kpc, kres>>
    /\ UNCHANGED <<cvars, xvars, ivars, tvars, pvars, rvars, wvars>>

CallerPassesObject(obj) ==
    /\ kpc = "building"
    /\ kn = 0
    /\ kkey' = obj
    /\ kn' = 1
    /\ UNCHANGED <<kpc, kres>>
    /\ UNCHANGED <<cvars, xvars, ivars, tvars, pvars, rvars, wvars>>

IsSshPubKeyReturns ==
    /\ kpc = "building"
    /\ kpc' = "done"
    /\ kres' = is_ssh_pub_key(kkey)
    /\ UNCHANGED <<kkey, kn>>
    /\ UNCHANGED <<cvars, xvars, ivars, tvars, pvars, rvars, wvars>>

NextKey ==
    \/ \E piece \in KeyPieces : CallerWritesKey(piece)
    \/ \E obj \in NonTextKeys : CallerPassesObject(obj)
    \/ IsSshPubKeyReturns

\* ------------------------------------------- callers, connections, scopes
vars == <<cvars, xvars, kvars, ivars, tvars, pvars, rvars, wvars>>

\* Two callers, each on its own thread.
Callers == {1, 2}

\* What the remote side answers to a command run by a caller.
\* 'hello' and a newline, what echo hello prints; a byte that is no UTF-8.
RunStdouts == {<<104, 101, 108, 108, 111, 10>>, <<255>>}
RunStatuses == {0, 64}
RunFormats == {FmtNone, "json"}

NoOutcome == [status |-> "none", error |-> ""]

InitConn ==
    /\ pc = [c \in Callers |-> "idle"]
    /\ op = [c \in Callers |-> "none"]
    /\ held = [c \in Callers |-> 0]
    /\ conns = <<>>
    /\ trace = [c \in Callers |-> <<>>]
    /\ outcome = [c \in Callers |-> NoOutcome]
    /\ result = [c \in Callers |-> NoResult]
    /\ runs = [c \in Callers |-> 0]
    /\ exits = [c \in Callers |-> <<>>]
    /\ lastout = [c \in Callers |-> <<>>]

\* A client whose connect() succeeded.
NewClient(c) == [owner |-> c, open |-> TRUE, closes |-> 0, execs |-> 0]

\* client.close()
close(cs, id) == [cs EXCEPT ![id].open = FALSE, ![id].closes = @ + 1]

\* connection.exec_command(cmd, timeout)
exec_command(cs, id) == [cs EXCEPT ![id].execs = @ + 1]

\* A close placed after the yield without try/finally: skipped on an exception.
close_without_finally(cs, id, raising) == IF raising THEN cs ELSE close(cs, id)

\* get_connection's 'finally: client.close()': runs when the with-block is
\* left, by falling off its end (raising = FALSE) or by an exception.
finally_close(cs, id, raising) == close(cs, id)

\* The caller enters 'with get_connection(...) as connection:'.
CallGetConnection(c) ==
    /\ pc[c] = "idle"
    /\ pc' = [pc EXCEPT ![c] = "connect"]
    /\ op' = [op EXCEPT ![c] = "scope"]
    /\ UNCHANGED <<held, conns, trace, outcome, result, runs, exits, lastout>>
    /\ UNCHANGED <<xvars, kvars, ivars, tvars, pvars, rvars, wvars>>

\* The caller calls command(cmd, ...).
CallCommand(c) ==
    /\ pc[c] = "idle"
    /\ pc' = [pc EXCEPT ![c] = "connect"]
    /\ op' = [op EXCEPT ![c] = "command"]
    /\ UNCHANGED <<held, conns, trace, outcome, result, runs, exits, lastout>>
    /\ UNCHANGED <<xvars, kvars, ivars, tvars, pvars, rvars, wvars>>

\* get_client that hands out the one shared connection of the module: an
\* open client, when there is one, is yielded again.
GetClientShares(c) ==
    /\ pc[c] = "connect"
    /\ IF \E id \in DOMAIN conns : conns[id].open
       THEN /\ held' = [held EXCEPT ![c] = CHOOSE id \in DOMAIN conns : conns[id].open]
            /\ UNCHANGED <<conns, trace>>
       ELSE /\ conns' = Append(conns, NewClient(c))
            /\ held' = [held EXCEPT ![c] = Len(conns) + 1]
            /\ trace' = [trace EXCEPT ![c] = Append(@, <<"connect", Len(conns) + 1>>)]
    /\ pc' = [pc EXCEPT ![c] = "body"]
    /\ UNCHANGED <<op, outcome, result, runs, exits, lastout>>
    /\ UNCHANGED <<xvars, kvars, ivars, tvars, pvars, rvars, wvars>>

\* get_client: client.connect() succeeds and get_connection yields the client.
GetClientConnects(c) ==
    /\ pc[c] = "connect"
    /\ conns' = Append(conns, NewClient(c))
    /\ held' = [held EXCEPT ![c] = Len(conns) + 1]
    /\ trace' = [trace EXCEPT ![c] = Append(@, <<"connect", Len(conns) + 1>>)]
    /\ pc' = [pc EXCEPT ![c] = "body"]
    /\ UNCHANGED <<op, outcome, result, runs, exits, lastout>>
    /\ UNCHANGED <<xvars, kvars, ivars, tvars, pvars, rvars, wvars>>

\* get_client with a retry: a failed connect() is attempted again.
GetClientRetries(c) ==
    /\ pc[c] = "connect"
    /\ Len(trace[c]) < 2
    /\ trace' = [trace EXCEPT ![c] = Append(@, <<"connect_failed", 0>>)]
    /\ UNCHANGED <<pc, op, held, conns, outcome, result, runs, exits, lastout>>
    /\ UNCHANGED <<xvars, kvars, ivars, tvars, pvars, rvars, wvars>>

\* get_client: client.connect() raises; the error leaves get_connection (above
\* its try) and the calling operation.
GetClientRaises(c) ==
    /\ pc[c] = "connect"
    /\ trace' = [trace EXCEPT ![c] = Append(@, <<"connect_failed", 0>>)]
    /\ pc' = [pc EXCEPT ![c] = "done"]
    /\ outcome' = [outcome EXCEPT ![c] = [status |-> "raised", error |-> "ConnectError"]]
    /\ UNCHANGED <<op, held, conns, result, runs, exits, lastout>>
    /\ UNCHANGED <<xvars, kvars, ivars, tvars, pvars, rvars, wvars>>

\* The with-block of caller c is left with status/error: the finally clause runs
\* and the caller's operation ends.
LeaveScope(c, cs, events, status, error) ==
    /\ conns' = finally_close(cs, held[c], status = "raised")
    /\ trace' = [trace EXCEPT ![c] = @ \o events \o <<<<"close", held[c]>>>>]
    /\ pc' = [pc EXCEPT ![c] = "done"]
    /\ outcome' = [outcome EXCEPT ![c] = [status |-> status, error |-> error]]

\* A run that connects a client of its own for every command.
SessionRunReconnects(c, stdout, errorcode, output_format) ==
    /\ pc[c] = "body" /\ op[c] = "scope"
    /\ runs[c] < MaxRuns
    /\ LET r == execute_command(stdout, <<>>, errorcode, output_format)
           id == Len(conns) + 1
       IN /\ conns' = exec_command(Append(conns, NewClient(c)), id)
          /\ trace' = [trace EXCEPT ![c] = @ \o <<<<"connect", id>>, <<"exec", id>>>>]
          /\ result' = [result EXCEPT ![c] = IF r.outcome = "returned" THEN r ELSE @]
          /\ runs' = [runs EXCEPT ![c] = @ + 1]
    /\ UNCHANGED <<pc, op, held, outcome>>
    /\ exits' = [exits EXCEPT ![c] = Append(@, errorcode)]
    /\ lastout' = [lastout EXCEPT ![c] = stdout]
    /\ UNCHANGED <<xvars, kvars, ivars, tvars, pvars, rvars, wvars>>

\* connection.run(cmd, output_format) inside the with-block: SSHClient.run
\* delegates to execute_command on the caller's own client.
SessionRun(c, stdout, errorcode, output_format) ==
    /\ pc[c] = "body" /\ op[c] = "scope"
    /\ runs[c] < MaxRuns
    /\ LET r == execute_command(stdout, <<>>, errorcode, output_format)
           ev == <<<<"exec", held[c]>>>>
       IN IF r.outcome = "returned"
          THEN /\ conns' = exec_command(conns, held[c])
               /\ trace' = [trace EXCEPT ![c] = @ \o ev]
               /\ result' = [result EXCEPT ![c] = r]
               /\ runs' = [runs EXCEPT ![c] = @ + 1]
               /\ UNCHANGED <<pc, outcome>>
          ELSE /\ LeaveScope(c, exec_command(conns, held[c]), ev, "raised", r.error)
               /\ UNCHANGED <<result, runs>>
    /\ UNCHANGED <<op, held>>
    /\ exits' = [exits EXCEPT ![c] = Append(@, errorcode)]
    /\ lastout' = [lastout EXCEPT ![c] = stdout]
    /\ UNCHANGED <<xvars, kvars, ivars, tvars, pvars, rvars, wvars>>

\* connection.run(...) where exec_command itself raises (socket.timeout,
\* SSHException): the error propagates out of the with-block.
SessionRunTransportRaises(c) ==
    /\ pc[c] = "body" /\ op[c] = "scope"
    /\ runs[c] < MaxRuns
    /\ LeaveScope(c, exec_command(conns, held[c]), <<<<"exec", held[c]>>>>, "raised", "TransportError")
    /\ UNCHANGED <<op, held, result, runs, exits, lastout>>
    /\ UNCHANGED <<xvars, kvars, ivars, tvars, pvars, rvars, wvars>>

\* The caller's own code in the with-block raises.
BodyRaises(c) ==
    /\ pc[c] = "body" /\ op[c] = "scope"
    /\ LeaveScope(c, conns, <<>>, "raised", "BodyError")
    /\ UNCHANGED <<op, held, result, runs, exits, lastout>>
    /\ UNCHANGED <<xvars, kvars, ivars, tvars, pvars, rvars, wvars>>

\* The with-block runs to its end.
BodyEnds(c) ==
    /\ pc[c] = "body" /\ op[c] = "scope"
    /\ LeaveScope(c, conns, <<>>, "returned", "")
    /\ UNCHANGED <<op, held, result, runs, exits, lastout>>
    /\ UNCHANGED <<xvars, kvars, ivars, tvars, pvars, rvars, wvars>>

\* command() on a client that is never closed: get_client() in place of the
\* with-block.
CommandExecutesUnscoped(c, stdout, errorcode, output_format) ==
    /\ pc[c] = "body" /\ op[c] = "command"
    /\ LET r == execute_command(stdout, <<>>, errorcode, output_format)
       IN /\ conns' = exec_command(conns, held[c])
          /\ trace' = [trace EXCEPT ![c] = Append(@, <<"exec", held[c]>>)]
          /\ pc' = [pc EXCEPT ![c] = "done"]
          /\ outcome' = [outcome EXCEPT ![c] = [status |-> r.outcome, error |-> r.error]]
          /\ result' = [result EXCEPT ![c] = IF r.outcome = "returned" THEN r ELSE @]
    /\ UNCHANGED <<op, held, runs>>
    /\ exits' = [exits EXCEPT ![c] = Append(@, errorcode)]
    /\ lastout' = [lastout EXCEPT ![c] = stdout]
    /\ UNCHANGED <<xvars, kvars, ivars, tvars, pvars, rvars, wvars>>

\* command(): 'return execute_command(cmd, connection, output_format, timeout)'
\* inside the with-block, then the block is left.
CommandExecutes(c, stdout, errorcode, output_format) ==
    /\ pc[c] = "body" /\ op[c] = "command"
    /\ LET r == execute_command(stdout, <<>>, errorcode, output_format)
       IN /\ LeaveScope(c, exec_command(conns, held[c]), <<<<"exec", held[c]>>>>, r.outcome, r.error)
          /\ result' = [result EXCEPT ![c] = IF r.outcome = "returned" THEN r ELSE @]
    /\ UNCHANGED <<op, held, runs>>
    /\ exits' = [exits EXCEPT ![c] = Append(@, errorcode)]
    /\ lastout' = [lastout EXCEPT ![c] = stdout]
    /\ UNCHANGED <<xvars, kvars, ivars, tvars, pvars, rvars, wvars>>

\* command() where exec_command itself raises.
CommandTransportRaises(c) ==
    /\ pc[c] = "body" /\ op[c] = "command"
    /\ LeaveScope(c, exec_command(conns, held[c]), <<<<"exec", held[c]>>>>, "raised", "TransportError")
    /\ UNCHANGED <<op, held, result, runs, exits, lastout>>
    /\ UNCHANGED <<xvars, kvars, ivars, tvars, pvars, rvars, wvars>>

Next ==
    \/ \E c \in Callers : CallGetConnection(c)
    \/ \E c \in Callers : CallCommand(c)
    \/ \E c \in Callers : GetClientConnects(c)
    \/ \E c \in Callers : GetClientRaises(c)
    \/ \E c \in Callers, stdout \in RunStdouts, errorcode \in RunStatuses,
          output_format \in RunFormats : SessionRun(c, stdout, errorcode, output_format)
    \/ \E c \in Callers : SessionRunTransportRaises(c)
    \/ \E c \in Callers : BodyRaises(c)
    \/ \E c \in Callers : BodyEnds(c)
    \/ \E c \in Callers, stdout \in RunStdouts, errorcode \in RunStatuses,
          output_format \in RunFormats : CommandExecutes(c, stdout, errorcode, output_format)
    \/ \E c \in Callers : CommandTransportRaises(c)

\* ------------------------------------------------- add_authorized_key calls

\* The key arguments: a stream and a path of the same public key, that key
\* as a string, a key whose comment holds a '[', a key whose second token
\* holds a non-ASCII character, a string that is neither a key nor a path,
\* and None.
KeyArguments ==
    {PyStream(<<"s", "s", "h", "-", "r", "s", "a", " ", "A", "A", "A", "A", " ", "a">> \o <<"\n">>),
     PyText(<<"k", ".", "p", "u", "b">>),
     PyText(<<"s", "s", "h", "-", "r", "s", "a", " ", "A", "A", "A", "A", " ", "a">>),
     PyText(<<"s", "s", "h", "-", "r", "s", "a", " ", "A", "A", "A", "A", " ", "a", "[">>),
     PyText(<<"s", "s", "h", "-", "r", "s", "a", " ", E_ACUTE, " ", "a">>),
     PyText(<<"n", "o">>),
     PyNone}

\* The key of another host, whose line begins like the key to install.
OtherKeys == {<<"s", "s", "h", "-", "r", "s", "a", " ", "A", "A", "A", "A", " ", "a", "0">>}

\* The exit statuses the remote shell can deliver for the k-th command; the
\* last one ends in '|| true'.
StepStatuses(k) == IF k = Len(InstallerCommands) THEN {0} ELSE {0, 1}

InitInstall ==
    /\ ipc = "idle"
    /\ ikey = PyNone
    /\ icontent = <<>>
    /\ issued = <<>>
    /\ ifailed = 0
    /\ iconns = <<>>
    /\ itrace = <<>>
    /\ iout = NoOutcome
    /\ icalls = 0
    /\ iprev = [content |-> <<>>, ok |-> FALSE]
    /\ authorized_keys = <<>>

\* Before the first call someone else puts a key into the remote file.
OtherKeyInstalled(line) ==
    /\ ipc = "idle"
    /\ authorized_keys = <<>>
    /\ authorized_keys' = <<line>>
    /\ UNCHANGED <<ipc, ikey, icontent, issued, ifailed, iconns, itrace, iout, icalls, iprev>>
    /\ UNCHANGED <<cvars, xvars, kvars, tvars, pvars, rvars, wvars>>

\* add_authorized_key that enters the with-block first and resolves its key
\* inside it.
CallAddAuthorizedKeyConnectsFirst(key) ==
    /\ ipc \in {"idle", "done"}
    /\ icalls < MaxInstalls
    /\ iprev' = [content |-> icontent, ok |-> iout.status = "returned" /\ ifailed = 0]
    /\ ikey' = key
    /\ issued' = <<>>
    /\ ifailed' = 0
    /\ LET content == resolve_key(key)
       IN IF content.kind = "raise"
          THEN /\ ipc' = "done"
               /\ icontent' = <<>>
               /\ iconns' = finally_close(<<NewClient(icalls + 1)>>, 1, TRUE)
               /\ itrace' = <<<<"connect", 1>>, <<"close", 1>>>>
               /\ iout' = [status |-> "raised", error |-> content.v[1]]
               /\ icalls' = icalls + 1
          ELSE /\ ipc' = "body"
               /\ icontent' = content.v
               /\ iconns' = <<NewClient(icalls + 1)>>
               /\ itrace' = <<<<"connect", 1>>>>
               /\ iout' = NoOutcome
               /\ icalls' = icalls
    /\ UNCHANGED authorized_keys
    /\ UNCHANGED <<cvars, xvars, kvars, tvars, pvars, rvars, wvars>>

\* add_authorized_key(key) is called, after the call before it has ended, and
\* resolves its key (lines 165-177): it raises, or goes on to get_connection.
CallAddAuthorizedKey(key) ==
    /\ ipc \in {"idle", "done"}
    /\ icalls < MaxInstalls
    /\ iprev' = [content |-> icontent, ok |-> iout.status = "returned" /\ ifailed = 0]
    /\ ikey' = key
    /\ issued' = <<>>
    /\ ifailed' = 0
    /\ iconns' = <<>>
    /\ itrace' = <<>>
    /\ LET content == resolve_key(key)
       IN IF content.kind = "raise"
          THEN /\ ipc' = "done"
               /\ icontent' = <<>>
               /\ iout' = [status |-> "raised", error |-> content.v[1]]
               /\ icalls' = icalls + 1
          ELSE /\ ipc' = "connect"
               /\ icontent' = content.v
               /\ iout' = NoOutcome
               /\ icalls' = icalls
    /\ UNCHANGED authorized_keys
    /\ UNCHANGED <<cvars, xvars, kvars, tvars, pvars, rvars, wvars>>

\* get_client: client.connect() succeeds and the with-block is entered.
InstallConnects ==
    /\ ipc = "connect"
    /\ iconns' = Append(iconns, NewClient(icalls + 1))
    /\ itrace' = Append(itrace, <<"connect", Len(iconns) + 1>>)
    /\ ipc' = "body"
    /\ UNCHANGED <<ikey, icontent, issued, ifailed, iout, icalls, iprev, authorized_keys>>
    /\ UNCHANGED <<cvars, xvars, kvars, tvars, pvars, rvars, wvars>>

\* get_client: client.connect() raises and so does add_authorized_key.
InstallConnectRaises ==
    /\ ipc = "connect"
    /\ itrace' = Append(itrace, <<"connect_failed", 0>>)
    /\ ipc' = "done"
    /\ iout' = [status |-> "raised", error |-> "ConnectError"]
    /\ icalls' = icalls + 1
    /\ UNCHANGED <<ikey, icontent, issued, ifailed, iconns, iprev, authorized_keys>>
    /\ UNCHANGED <<cvars, xvars, kvars, tvars, pvars, rvars, wvars>>

\* The next execute_command of the with-block runs and returns: the remote
\* shell ran the command and exited with status, which the installer does not
\* look at. After the last command the with-block is left and the client
\* closed.
InstallStep(status) ==
    /\ ipc = "body"
    /\ LET k == Len(issued) + 1
           cmd == InstallerCommands[k]
           cs == exec_command(iconns, Len(iconns))
           ev == <<<<"exec", Len(iconns), cmd>>>>
       IN /\ status \in StepStatuses(k)
          /\ issued' = Append(issued, cmd)
          /\ ifailed' = IF ifailed = 0 /\ status # 0 THEN k ELSE ifailed
          /\ authorized_keys' =
                IF k = 2 THEN add_key(icontent, authorized_keys, status) ELSE authorized_keys
          /\ IF k = Len(InstallerCommands)
             THEN /\ iconns' = finally_close(cs, Len(iconns), FALSE)
                  /\ itrace' = itrace \o ev \o <<<<"close", Len(iconns)>>>>
                  /\ ipc' = "done"
                  /\ iout' = [status |-> "returned", error |-> ""]
                  /\ icalls' = icalls + 1
             ELSE /\ iconns' = cs
                  /\ itrace' = itrace \o ev
                  /\ UNCHANGED <<ipc, iout, icalls>>
    /\ UNCHANGED <<ikey, icontent, iprev>>
    /\ UNCHANGED <<cvars, xvars, kvars, tvars, pvars, rvars, wvars>>

\* The next execute_command raises (exec_command fails, or the output does
\* not decode): the with-block is left, the client closed, the error raised.
InstallStepRaises ==
    /\ ipc = "body"
    /\ LET cmd == InstallerCommands[Len(issued) + 1]
       IN /\ iconns' = finally_close(exec_command(iconns, Len(iconns)), Len(iconns), TRUE)
          /\ itrace' = itrace \o <<<<"exec", Len(iconns), cmd>>, <<"close", Len(iconns)>>>>
          /\ issued' = Append(issued, cmd)
    /\ ipc' = "done"
    /\ iout' = [status |-> "raised", error |-> "TransportError"]
    /\ icalls' = icalls + 1
    /\ UNCHANGED <<ikey, icontent, ifailed, iprev, authorized_keys>>
    /\ UNCHANGED <<cvars, xvars, kvars, tvars, pvars, rvars, wvars>>

NextInstall ==
    \/ \E line \in OtherKeys : OtherKeyInstalled(line)
    \/ \E key \in KeyArguments : CallAddAuthorizedKey(key)
    \/ InstallConnects
    \/ InstallConnectRaises
    \/ \E status \in {0, 1} : InstallStep(status)
    \/ InstallStepRaises

\* ------------------------------------------ upload_file, download_file calls

\* The remote paths, with and without a directory, and the local_file
\* arguments: a path or a stream to upload, a path or None to download to.
RemoteFiles == {<<"f">>, <<"/", "d", "/", "f">>}
UploadSources == {PyText(<<"g">>), PyStream(<<13, 120>>)}
DownloadTargets == {PyText(<<"g">>), PyText(<<"h">>), PyNone}
\* The local paths a call can read or write, and the bytes a file can hold.
LocalPaths == {<<"g">>, <<"h">>} \cup RemoteFiles
FileContents == {<<>>, <<104>>, <<13, 10>>}

NoTransfer == [op |-> "none", remote_file |-> <<>>, given |-> PyNone, local_file |-> PyNone]
NothingWritten == [side |-> "none", path |-> <<>>]

InitTransfer ==
    /\ tpc = "idle"
    /\ targs = NoTransfer
    /\ tconns = <<>>
    /\ ttrace = <<>>
    /\ tsftp = "none"
    /\ tout = NoOutcome
    /\ tcalls = 0
    /\ twritten = NothingWritten
    /\ tlocal = [path \in LocalPaths |-> PyNone]
    /\ tremote = [path \in RemoteFiles |-> PyNone]
    /\ tprev = [args |-> NoTransfer, status |-> "none"]

\* Before the first call the local file to upload is written.
LocalFileWritten(content) ==
    /\ tpc = "idle"
    /\ tlocal[<<"g">>] = PyNone
    /\ tlocal' = [tlocal EXCEPT ![<<"g">>] = PyBytes(content)]
    /\ UNCHANGED <<tpc, targs, tconns, ttrace, tsftp, tout, tcalls, twritten, tremote, tprev>>
    /\ UNCHANGED <<cvars, xvars, kvars, ivars, pvars, rvars, wvars>>

\* upload_file(local_file, remote_file) is called, after the call before it
\* has ended.
CallUploadFile(local_file, remote_file) ==
    /\ tpc \in {"idle", "done"}
    /\ tcalls < MaxTransfers
    /\ tpc' = "connect"
    /\ targs' = [op |-> "upload", remote_file |-> remote_file,
                 given |-> local_file, local_file |-> local_file]
    /\ ttrace' = <<>>
    /\ tsftp' = "none"
    /\ tout' = NoOutcome
    /\ twritten' = NothingWritten
    /\ tprev' = [args |-> targs, status |-> tout.status]
    /\ UNCHANGED <<tconns, tcalls, tlocal, tremote>>
    /\ UNCHANGED <<cvars, xvars, kvars, ivars, pvars, rvars, wvars>>

\* download_file(remote_file, local_file) is called, after the call before it
\* has ended, and settles its local_file.
CallDownloadFile(remote_file, local_file) ==
    /\ tpc \in {"idle", "done"}
    /\ tcalls < MaxTransfers
    /\ tpc' = "connect"
    /\ targs' = [op |-> "download", remote_file |-> remote_file,
                 given |-> local_file,
                 local_file |-> default_local_file(remote_file, local_file)]
    /\ ttrace' = <<>>
    /\ tsftp' = "none"
    /\ tout' = NoOutcome
    /\ twritten' = NothingWritten
    /\ tprev' = [args |-> targs, status |-> tout.status]
    /\ UNCHANGED <<tconns, tcalls, tlocal, tremote>>
    /\ UNCHANGED <<cvars, xvars, kvars, ivars, pvars, rvars, wvars>>

\* get_client: client.connect() succeeds and the with-block is entered.
TransferConnects ==
    /\ tpc = "connect"
    /\ tconns' = Append(tconns, NewClient(tcalls + 1))
    /\ ttrace' = Append(ttrace, <<"connect", Len(tconns) + 1>>)
    /\ tpc' = "body"
    /\ UNCHANGED <<targs, tsftp, tout, tcalls, twritten, tlocal, tremote, tprev>>
    /\ UNCHANGED <<cvars, xvars, kvars, ivars, pvars, rvars, wvars>>

\* get_client: client.connect() raises and so does the call.
TransferConnectRaises ==
    /\ tpc = "connect"
    /\ ttrace' = Append(ttrace, <<"connect_failed", 0>>)
    /\ tpc' = "done"
    /\ tout' = [status |-> "raised", error |-> "ConnectError"]
    /\ tcalls' = tcalls + 1
    /\ UNCHANGED <<targs, tconns, tsftp, twritten, tlocal, tremote, tprev>>
    /\ UNCHANGED <<cvars, xvars, kvars, ivars, pvars, rvars, wvars>>

\* connection.open_sftp() returns the channel.
OpenSftp ==
    /\ tpc = "body"
    /\ ttrace' = Append(ttrace, <<"open_sftp", Len(tconns)>>)
    /\ tsftp' = "open"
    /\ tpc' = "sftp"
    /\ UNCHANGED <<targs, tconns, tout, tcalls, twritten, tlocal, tremote, tprev>>
    /\ UNCHANGED <<cvars, xvars, kvars, ivars, pvars, rvars, wvars>>

\* connection.open_sftp() raises: the finally clause calls sftp.close() on a
\* name that was never bound, the UnboundLocalError takes the place of the
\* error, and get_connection closes the client.
OpenSftpRaises ==
    /\ tpc = "body"
    /\ tconns' = finally_close(tconns, Len(tconns), TRUE)
    /\ ttrace' = ttrace \o <<<<"open_sftp_failed", Len(tconns)>>, <<"close", Len(tconns)>>>>
    /\ tpc' = "done"
    /\ tout' = [status |-> "raised", error |-> "UnboundLocalError"]
    /\ tcalls' = tcalls + 1
    /\ UNCHANGED <<targs, tsftp, twritten, tlocal, tremote, tprev>>
    /\ UNCHANGED <<cvars, xvars, kvars, ivars, pvars, rvars, wvars>>

\* The one transfer of the call, sftp.putfo, sftp.put or sftp.get, returns
\* or raises; the finally clause closes the channel, get_connection closes
\* the client and the call ends. A transfer whose source file does not exist
\* raises; one that raises midway leaves its target as it was or cut short
\* (truncated).
Transfer(raising, truncated) ==
    /\ tpc = "sftp"
    /\ LET id == Len(tconns)
           method == IF targs.op = "download" THEN "get" ELSE upload_method(targs.local_file)
           closed == finally_sftp_close(raising)
           source == IF targs.op = "download" THEN tremote[targs.remote_file]
                     ELSE IF method = "putfo" THEN PyBytes(targs.local_file.v)
                     ELSE tlocal[targs.local_file.v]
           written == IF raising THEN PyBytes(<<>>) ELSE source
       IN /\ source = PyNone => raising
          /\ truncated => (raising /\ source # PyNone)
          /\ ttrace' = ttrace \o <<<<method, id>>>>
                       \o (IF closed THEN <<<<"sftp_close", id>>>> ELSE <<>>)
                       \o <<<<"close", id>>>>
          /\ tsftp' = IF closed THEN "closed" ELSE tsftp
          /\ tconns' = finally_close(tconns, id, raising)
          /\ IF raising /\ ~truncated THEN UNCHANGED <<tlocal, tremote>>
             ELSE IF targs.op = "download"
             THEN /\ tlocal' = sftp_get(tlocal, targs.local_file.v, written)
                  /\ UNCHANGED tremote
             ELSE /\ tremote' = sftp_put(tremote, targs.remote_file, written)
                  /\ UNCHANGED tlocal
    /\ twritten' = IF raising THEN NothingWritten
                   ELSE IF targs.op = "download"
                   THEN [side |-> "local", path |-> targs.local_file.v]
                   ELSE [side |-> "remote", path |-> targs.remote_file]
    /\ tout' = IF raising THEN [status |-> "raised", error |-> "TransferError"]
               ELSE [status |-> "returned", error |-> ""]
    /\ tpc' = "done"
    /\ tcalls' = tcalls + 1
    /\ UNCHANGED <<targs, tprev>>
    /\ UNCHANGED <<cvars, xvars, kvars, ivars, pvars, rvars, wvars>>

NextTransfer ==
    \/ \E content \in FileContents : LocalFileWritten(content)
    \/ \E local_file \in UploadSources, remote_file \in RemoteFiles :
          CallUploadFile(local_file, remote_file)
    \/ \E remote_file \in RemoteFiles, local_file \in DownloadTargets :
          CallDownloadFile(remote_file, local_file)
    \/ TransferConnects
    \/ TransferConnectRaises
    \/ OpenSftp
    \/ OpenSftpRaises
    \/ \E raising \in BOOLEAN, truncated \in BOOLEAN : Transfer(raising, truncated)

\* ---------------------------------------------- connection parameters, calls

\* The values the configuration can hold for server.hostname, and the
\* arguments a call can be made with.
ConfigHostnames == {"cfg.host", "cfg.host2"}
HostnameArgs == {Unset, "", "host"}
UsernameArgs == {Unset, "", "user"}
PasswordArgs == {Unset, "pw"}
KeyFilenameArgs == {Unset, "key"}
TimeoutArgs == {Omitted, 5}

NoArgs ==
    [op |-> "none", hostname |-> Unset, username |-> Unset, password |-> Unset,
     key_filename |-> Unset, timeout |-> Omitted]
NoConnect ==
    [hostname |-> Unset, username |-> Unset, key_filename |-> Unset, password |-> Unset,
     timeout |-> 0]

InitParams ==
    /\ settings = [hostname |-> "cfg.host", ssh_username |-> "cfg.user",
                   ssh_key |-> "cfg.key", ssh_password |-> "cfg.pw"]
    /\ ppc = "idle"
    /\ pargs = NoArgs
    /\ pconfig = settings
    /\ pconnect = NoConnect
    /\ pexec = 0

\* Between two calls the configuration is loaded with another hostname.
Reconfigure(hostname) ==
    /\ ppc \in {"idle", "done"}
    /\ hostname # settings.hostname
    /\ settings' = [settings EXCEPT !.hostname = hostname]
    /\ ppc' = "idle"
    /\ UNCHANGED <<pargs, pconfig, pconnect, pexec>>
    /\ UNCHANGED <<cvars, xvars, kvars, ivars, tvars, rvars, wvars>>

\* 'with get_connection(hostname, username, password, key_filename, timeout)'
\* is entered: get_client resolves the parameters and connects.
AcquireWith(hostname, username, password, key_filename, timeout) ==
    /\ ppc \in {"idle", "done"}
    /\ ppc' = "session"
    /\ pargs' = [op |-> "scope", hostname |-> hostname, username |-> username,
                 password |-> password, key_filename |-> key_filename, timeout |-> timeout]
    /\ pconfig' = settings
    /\ pconnect' = get_client(settings, hostname, username, password, key_filename,
                              timeout_or(timeout, DefaultConnectTimeout))
    /\ pexec' = 0
    /\ UNCHANGED settings
    /\ UNCHANGED <<cvars, xvars, kvars, ivars, tvars, rvars, wvars>>

\* connection.run(cmd, output_format, timeout) or execute_command(cmd,
\* connection, output_format, timeout) in the with-block.
RunWith(timeout) ==
    /\ ppc = "session"
    /\ pexec' = timeout_or(timeout, DefaultCommandTimeout)
    /\ pargs' = [pargs EXCEPT !.timeout = timeout]
    /\ UNCHANGED <<settings, ppc, pconfig, pconnect>>
    /\ UNCHANGED <<cvars, xvars, kvars, ivars, tvars, rvars, wvars>>

\* The with-block is left.
ReleaseSession ==
    /\ ppc = "session"
    /\ ppc' = "done"
    /\ UNCHANGED <<settings, pargs, pconfig, pconnect, pexec>>
    /\ UNCHANGED <<cvars, xvars, kvars, ivars, tvars, rvars, wvars>>

\* command(cmd, hostname, output_format, username, password, key_filename,
\* timeout), from call to return.
CommandWith(hostname, username, password, key_filename, timeout) ==
    /\ ppc \in {"idle", "done"}
    /\ ppc' = "done"
    /\ pargs' = [op |-> "command", hostname |-> hostname, username |-> username,
                 password |-> password, key_filename |-> key_filename, timeout |-> timeout]
    /\ pconfig' = settings
    /\ pconnect' = get_client(settings, command_hostname(settings, hostname), username,
                              password, key_filename,
                              timeout_or(timeout, DefaultConnectTimeout))
    /\ pexec' = command_timeout(timeout_or(timeout, DefaultConnectTimeout))
    /\ UNCHANGED settings
    /\ UNCHANGED <<cvars, xvars, kvars, ivars, tvars, rvars, wvars>>

NextParams ==
    \/ \E hostname \in ConfigHostnames : Reconfigure(hostname)
    \/ \E hostname \in HostnameArgs, username \in UsernameArgs, password \in PasswordArgs,
          key_filename \in KeyFilenameArgs, timeout \in TimeoutArgs :
          AcquireWith(hostname, username, password, key_filename, timeout)
    \/ \E timeout \in TimeoutArgs : RunWith(timeout)
    \/ ReleaseSession
    \/ \E hostname \in HostnameArgs, username \in UsernameArgs, password \in PasswordArgs,
          key_filename \in KeyFilenameArgs, timeout \in TimeoutArgs :
          CommandWith(hostname, username, password, key_filename, timeout)


\* ------------------------------------ two add_authorized_key calls at once
Installers == {1, 2}

\* The one key both calls install, given as a string or as a stream.
RaceKeys ==
    {PyText(<<"s", "s", "h", "-", "r", "s", "a", " ", "A", "A", "A", "A", " ", "a">>),
     PyStream(<<"s", "s", "h", "-", "r", "s", "a", " ", "A", "A", "A", "A", " ", "a">> \o <<"\n">>)}

InitRace ==
    /\ rpc = [i \in Installers |-> "idle"]
    /\ rkey = [i \in Installers |-> <<>>]
    /\ rissued = [i \in Installers |-> 0]
    /\ rgrep = [i \in Installers |-> 0]
    /\ rstatus = [i \in Installers |-> 0]
    /\ rfile = <<>>

\* Lines 165-177: the call resolves its key and goes on to get_connection.
RaceCall(i, key) ==
    /\ rpc[i] = "idle"
    /\ resolve_key(key).kind = "text"
    /\ rkey' = [rkey EXCEPT ![i] = resolve_key(key).v]
    /\ rpc' = [rpc EXCEPT ![i] = "connect"]
    /\ UNCHANGED <<rissued, rgrep, rstatus, rfile>>
    /\ UNCHANGED <<cvars, xvars, kvars, ivars, tvars, pvars, wvars>>

\* get_client: client.connect() succeeds and the with-block is entered.
RaceConnects(i) ==
    /\ rpc[i] = "connect"
    /\ rpc' = [rpc EXCEPT ![i] = "body"]
    /\ UNCHANGED <<rkey, rissued, rgrep, rstatus, rfile>>
    /\ UNCHANGED <<cvars, xvars, kvars, ivars, tvars, pvars, wvars>>

\* get_client: client.connect() raises and so does the call.
RaceConnectRaises(i) ==
    /\ rpc[i] = "connect"
    /\ rpc' = [rpc EXCEPT ![i] = "done"]
    /\ UNCHANGED <<rkey, rissued, rgrep, rstatus, rfile>>
    /\ UNCHANGED <<cvars, xvars, kvars, ivars, tvars, pvars, wvars>>

\* A command other than the second runs and returns; none of them writes the
\* lines of the file. After the sixth the with-block is left.
RaceStep(i) ==
    /\ rpc[i] = "body"
    /\ rissued[i] # 1
    /\ rissued' = [rissued EXCEPT ![i] = @ + 1]
    /\ rpc' = [rpc EXCEPT ![i] = IF rissued[i] + 1 = Len(InstallerCommands) THEN "done" ELSE "body"]
    /\ UNCHANGED <<rkey, rgrep, rstatus, rfile>>
    /\ UNCHANGED <<cvars, xvars, kvars, ivars, tvars, pvars, wvars>>

\* The next execute_command raises before the remote shell runs anything.
RaceStepRaises(i) ==
    /\ rpc[i] = "body"
    /\ rpc' = [rpc EXCEPT ![i] = "done"]
    /\ UNCHANGED <<rkey, rissued, rgrep, rstatus, rfile>>
    /\ UNCHANGED <<cvars, xvars, kvars, ivars, tvars, pvars, wvars>>

\* The second command, left of ||: the remote shell runs grep -q '{key}' on
\* the file as it is now.
ShellGrep(i) ==
    /\ rpc[i] = "body"
    /\ rissued[i] = 1
    /\ rgrep' = [rgrep EXCEPT ![i] = grep_q(rkey[i], rfile)]
    /\ rpc' = [rpc EXCEPT ![i] = "echo"]
    /\ UNCHANGED <<rkey, rissued, rstatus, rfile>>
    /\ UNCHANGED <<cvars, xvars, kvars, ivars, tvars, pvars, wvars>>

\* The right of || decided by the file as it is when echo would run: the
\* check and the append as one step.
ShellOrEchoAtomic(i, status) ==
    /\ rpc[i] = "echo"
    /\ status = 0 \/ rgrep[i] # 0
    /\ rfile' = add_key(rkey[i], rfile, status)
    /\ rstatus' = [rstatus EXCEPT ![i] = status]
    /\ rissued' = [rissued EXCEPT ![i] = 2]
    /\ rpc' = [rpc EXCEPT ![i] = "body"]
    /\ UNCHANGED <<rkey, rgrep>>
    /\ UNCHANGED <<cvars, xvars, kvars, ivars, tvars, pvars, wvars>>

\* The second command, right of ||: when grep exited non-zero the shell runs
\* echo '{key}' >> file, which appends the line when it exits 0; the status
\* of the command is echo's, or grep's 0. execute_command returns.
ShellOrEcho(i, status) ==
    /\ rpc[i] = "echo"
    /\ status = 0 \/ rgrep[i] # 0
    /\ rfile' = IF rgrep[i] # 0 /\ status = 0 THEN Append(rfile, rkey[i]) ELSE rfile
    /\ rstatus' = [rstatus EXCEPT ![i] = status]
    /\ rissued' = [rissued EXCEPT ![i] = 2]
    /\ rpc' = [rpc EXCEPT ![i] = "body"]
    /\ UNCHANGED <<rkey, rgrep>>
    /\ UNCHANGED <<cvars, xvars, kvars, ivars, tvars, pvars, wvars>>

NextRace ==
    \/ \E i \in Installers, key \in RaceKeys : RaceCall(i, key)
    \/ \E i \in Installers : RaceConnects(i)
    \/ \E i \in Installers : RaceConnectRaises(i)
    \/ \E i \in Installers : RaceStep(i)
    \/ \E i \in Installers : RaceStepRaises(i)
    \/ \E i \in Installers : ShellGrep(i)
    \/ \E i \in Installers, status \in {0, 1} : ShellOrEcho(i, status)

\* ------------------------------- one execute_command call and the clock
InitWait == xelapsed = 0

\* Time goes by while execute_command waits at line 277; at MaxTicks the
\* timeout the call was given has elapsed.
Tick ==
    /\ xpc = "running"
    /\ xelapsed < MaxTicks
    /\ xelapsed' = xelapsed + 1
    /\ UNCHANGED xvars
    /\ UNCHANGED <<cvars, kvars, ivars, tvars, pvars, rvars>>

\* Line 275 hands timeout to exec_command as its second positional argument
\* and line 277 waits in recv_exit_status(), which takes no timeout: the call
\* leaves line 277 when the remote process exits, and by no other step.
NextExecLive ==
    \/ \E chunk \in StdoutChunks : RemoteWriteStdout(chunk)
    \/ \E chunk \in StderrChunks : RemoteWriteStderr(chunk)
    \/ \E errorcode \in ExitStatuses, output_format \in OutputFormats :
          ExecuteReturns(errorcode, output_format)
    \/ Tick

\* ---------------------------------------------------------- specifications
Init ==
    /\ InitConn /\ InitExec /\ InitKey /\ InitInstall /\ InitTransfer /\ InitParams
    /\ InitRace /\ InitWait

Spec == Init /\ [][Next]_vars

SpecExec == Init /\ [][NextExec]_vars

SpecKey == Init /\ [][NextKey]_vars

SpecInstall == Init /\ [][NextInstall]_vars

SpecTransfer == Init /\ [][NextTransfer]_vars

SpecParams == Init /\ [][NextParams]_vars

SpecRace == Init /\ [][NextRace]_vars

\* Time goes by whatever the remote process does; nothing makes the remote
\* process exit.
SpecExecLive == Init /\ [][NextExecLive]_vars /\ WF_vars(Tick)

\* ======================================================== checked properties
Range(f) == {f[i] : i \in DOMAIN f}

\* The clients connected for caller c.
ClientsOf(c) == {id \in DOMAIN conns : conns[id].owner = c}

\* Number of connect() calls made for caller c.
ConnectCalls(c) ==
    Cardinality({i \in DOMAIN trace[c] : trace[c][i][1] \in {"connect", "connect_failed"}})

\* execute_command has returned a result in the single-call specification.
Returned == xpc = "done" /\ xres.outcome = "returned"

\* The decoded text of the bytes the remote process wrote to stdout.
RawText == [i \in DOMAIN xout |-> Chr[xout[i]]]

\* C1: every client whose connect succeeded is closed exactly once, at the
\* moment its caller's with-block is left, normally or by an error: never
\* closed while the block runs, closed once and no longer open after it.
C1_ClosedExactlyOnce ==
    \A id \in DOMAIN conns :
        /\ conns[id].closes <= 1
        /\ pc[conns[id].owner] = "body" => conns[id].closes = 0 /\ conns[id].open
        /\ pc[conns[id].owner] = "done" => conns[id].closes = 1 /\ ~conns[id].open

\* C1 witness: a with-block left by an error raised by a command run on the
\* session, its client closed once.
C1_Witness ==
    \E c \in Callers :
        /\ op[c] = "scope" /\ pc[c] = "done"
        /\ outcome[c] = [status |-> "raised", error |-> "UnicodeDecodeError"]
        /\ held[c] \in DOMAIN conns /\ conns[held[c]].closes = 1

\* C2: a command() that got past connect, whether it returns a result or its
\* command execution raises, has made exactly the calls connect, exec_command,
\* close on one client, which is closed when control is back at the caller; a
\* returned SSHCommandResult is held by the caller after the close.
C2_CommandAcquireRunRelease ==
    \A c \in Callers :
        (op[c] = "command" /\ pc[c] = "done" /\ outcome[c].error # "ConnectError") =>
            /\ held[c] \in DOMAIN conns
            /\ trace[c] = <<<<"connect", held[c]>>, <<"exec", held[c]>>, <<"close", held[c]>>>>
            /\ ClientsOf(c) = {held[c]}
            /\ conns[held[c]].execs = 1
            /\ conns[held[c]].closes = 1 /\ ~conns[held[c]].open
            /\ outcome[c].status = "returned" <=> result[c].outcome = "returned"
            /\ outcome[c].status \in {"returned", "raised"}

\* C2 witness: one command() returned a parsed result and another one raised
\* in its command execution, both after closing.
C2_Witness ==
    \E c, d \in Callers :
        /\ op[c] = "command" /\ pc[c] = "done" /\ outcome[c].status = "returned"
        /\ result[c].stdout.kind = "parsed" /\ ~conns[held[c]].open
        /\ op[d] = "command" /\ pc[d] = "done" /\ outcome[d].error = "TransportError"
        /\ ~conns[held[d]].open

\* C3: a failed connect() ends the operation with the connect error after
\* exactly one attempt: no retry, no client yielded, no command executed.
C3_ConnectFailurePropagates ==
    \A c \in Callers :
        /\ ConnectCalls(c) <= 1
        /\ (\E i \in DOMAIN trace[c] : trace[c][i][1] = "connect_failed") =>
              /\ pc[c] = "done"
              /\ outcome[c] = [status |-> "raised", error |-> "ConnectError"]
              /\ trace[c] = <<<<"connect_failed", 0>>>>
              /\ held[c] = 0 /\ ClientsOf(c) = {}
              /\ result[c] = NoResult /\ runs[c] = 0
        /\ outcome[c].error = "ConnectError" => trace[c] = <<<<"connect_failed", 0>>>>

\* C3 witness: a command() and a with-block both ended by a failed connect.
C3_Witness ==
    \E c, d \in Callers :
        /\ op[c] = "command" /\ outcome[c].error = "ConnectError"
        /\ op[d] = "scope" /\ outcome[d].error = "ConnectError"
        /\ conns = <<>>

\* C4: a parser is called only for return_code 0 with output_format "json" or
\* "csv", parse_json only for "json", parse_csv only for "csv", at most once
\* per command; stdout is a parsed value exactly when a parser was called.
C4_ParserOnlyOnSuccess ==
    Returned =>
        /\ Len(xres.calls) <= 1
        /\ xres.calls # <<>> => xres.return_code = 0 /\ xres.output_format \in {"json", "csv"}
        /\ "parse_json" \in Range(xres.calls) => xres.output_format = "json"
        /\ "parse_csv" \in Range(xres.calls) => xres.output_format = "csv"
        /\ xres.stdout.kind = "parsed" <=> xres.calls # <<>>

\* C4 witness: a failed "csv" command with output, left unparsed.
C4_Witness ==
    /\ Returned /\ xres.output_format = "csv" /\ xres.return_code = 1
    /\ xout # <<>> /\ xres.calls = <<>>

\* C5: for return_code 0 and "json", stdout is parse_json of the whole decoded
\* stdout text when there is output, and None without a parser call when
\* there is none.
C5_JsonParsesRawText ==
    (Returned /\ xres.output_format = "json" /\ xres.return_code = 0) =>
        IF xout # <<>>
        THEN xres.stdout = PyParsed("parse_json", PyText(RawText)) /\ xres.calls = <<"parse_json">>
        ELSE xres.stdout = PyNone /\ xres.calls = <<>>

\* C5 witness: a successful "json" command whose output spans lines, and the
\* parser was given the text undivided.
C5_Witness ==
    /\ Returned /\ xres.output_format = "json" /\ xres.return_code = 0
    /\ 10 \in Range(xout) /\ xres.calls = <<"parse_json">>

\* C6 as stated: with a non-zero return code stdout is never a list of lines.
C6_Original ==
    (Returned /\ xres.return_code # 0) => xres.stdout.kind # "list"

\* C6 amended: with a non-zero return code no parser is called and stdout is
\* what execute_command handed over: the list of lines whenever there is
\* output and the format is neither "json" nor "plain", the raw value otherwise.
C6_FailedCommandUnparsed ==
    (Returned /\ xres.return_code # 0) =>
        /\ xres.calls = <<>>
        /\ xres.stdout = xres.handed
        /\ xres.stdout.kind = "list" <=> (xout # <<>> /\ xres.output_format \notin {"json", "plain"})
        /\ xres.stdout.kind # "list" =>
              xres.stdout = (IF xout = <<>> THEN PyBytes(<<>>) ELSE PyText(RawText))

\* C6 witness: a failed "csv" command whose stdout is a list of lines.
C6_Witness ==
    /\ Returned /\ xres.return_code = 1 /\ xres.output_format = "csv"
    /\ xres.stdout.kind = "list" /\ Len(xres.stdout.v) >= 2

\* The reference transformation of C7, by structural recursion on the text.
RECURSIVE RefRemoveQuotes(_)
RefRemoveQuotes(s) ==
    IF s = <<>> THEN <<>>
    ELSE IF Len(s) >= 2 /\ SubSeq(s, 1, 2) = <<"\"", "\"">> THEN RefRemoveQuotes(SubSeq(s, 3, Len(s)))
    ELSE <<Head(s)>> \o RefRemoveQuotes(Tail(s))

\* The colour sequences ESC [ d m and ESC [ d d m over the model's digits.
ColourSequences ==
    {<<ESC, "[", d, "m">> : d \in Digits} \cup {<<ESC, "[", d, e, "m">> : d \in Digits, e \in Digits}

HasColourPrefix(s) == \E q \in ColourSequences : Len(s) >= Len(q) /\ SubSeq(s, 1, Len(q)) = q

\* The longest colour sequence s starts with (the regular expression is greedy).
ColourPrefixLen(s) ==
    CHOOSE n \in {4, 5} :
        /\ n <= Len(s) /\ SubSeq(s, 1, n) \in ColourSequences
        /\ \A k \in {4, 5} : (k <= Len(s) /\ SubSeq(s, 1, k) \in ColourSequences) => k <= n

RECURSIVE RefStrip(_)
RefStrip(s) ==
    IF s = <<>> THEN <<>>
    ELSE IF HasColourPrefix(s) THEN RefStrip(SubSeq(s, ColourPrefixLen(s) + 1, Len(s)))
    ELSE <<Head(s)>> \o RefStrip(Tail(s))

\* The pieces of s between newlines: piece k lies between newline k-1 and k.
NewlineAt(s) == {i \in DOMAIN s : s[i] = "\n"}
NthNewline(s, k) ==
    IF k = 0 THEN 0
    ELSE IF k > Cardinality(NewlineAt(s)) THEN Len(s) + 1
    ELSE CHOOSE i \in NewlineAt(s) : Cardinality({j \in NewlineAt(s) : j <= i}) = k
RefSplit(s) ==
    [k \in 1..(Cardinality(NewlineAt(s)) + 1) |->
        SubSeq(s, NthNewline(s, k - 1) + 1, NthNewline(s, k) - 1)]

RefLines(s) ==
    LET pieces == RefSplit(RefRemoveQuotes(s))
        kept == SelectSeq(pieces, LAMBDA l : l = <<>> \/ l[1] # "[")
    IN [k \in DOMAIN kept |-> RefStrip(kept[k])]

\* C7: with output and a format other than "json"/"plain", the list of lines
\* execute_command produces is the reference transformation of the decoded
\* text: "" removed, split at newlines, lines starting with '[' dropped, the
\* colour sequences of each remaining line removed, order kept.
C7_LinesAreReference ==
    (Returned /\ xout # <<>> /\ xres.output_format \notin {"json", "plain"}) =>
        xres.handed = PyList(RefLines(RawText))

\* C7 witness: an output with an empty line between a banner line and text.
C7_Witness ==
    /\ Returned /\ xres.output_format = FmtNone
    /\ xout = <<91, 10, 10, 109>>
    /\ xres.stdout = PyList(<<<<>>, <<"m">>>>)

\* C8 as stated: with no output_format, no returned line begins with '['.
C8_NoBannerLines ==
    (Returned /\ xres.output_format = FmtNone /\ xres.stdout.kind = "list") =>
        \A k \in DOMAIN xres.stdout.v : ~startswith_bracket(xres.stdout.v[k])

\* A colour sequence occurs somewhere in the line.
ContainsColour(line) == \E i \in DOMAIN line : HasColourPrefix(SubSeq(line, i, Len(line)))

\* C9 as stated: with no output_format, no returned line contains a colour
\* sequence ESC [ digit(s) m.
C9_NoColourSequences ==
    (Returned /\ xres.output_format = FmtNone /\ xres.stdout.kind = "list") =>
        \A k \in DOMAIN xres.stdout.v : ~ContainsColour(xres.stdout.v[k])

\* C10: for "plain" and "json" the stdout handed to the SSHCommandResult
\* constructor is the decoded text as one value, nothing removed from it, and
\* for "plain" it is the result's stdout.
C10_PlainJsonBypass ==
    (Returned /\ xres.output_format \in {"plain", "json"}) =>
        /\ xres.handed = (IF xout = <<>> THEN PyBytes(<<>>) ELSE PyText(RawText))
        /\ xres.output_format = "plain" => xres.stdout = xres.handed /\ xres.calls = <<>>

\* C10 witness: a "plain" result that still holds a banner line, the ""
\* artifact and a colour sequence.
C10_Witness ==
    /\ Returned /\ xres.output_format = "plain" /\ xres.return_code = 0
    /\ xres.stdout = PyText(<<"[", "\"", "\"", ESC, "[", "3", "m">>)

\* The exit status of the last command the remote side answered for caller c.
LastExit(c) == exits[c][Len(exits[c])]

\* Every byte is one decode_to_utf8 decodes.
Decodable(bytes) == \A i \in DOMAIN bytes : bytes[i] \in DOMAIN Chr

\* Caller c's last command was answered like 'echo hello' and was run with no
\* output_format.
EchoHello(c) ==
    /\ exits[c] # <<>> /\ LastExit(c) = 0
    /\ lastout[c] = <<104, 101, 108, 108, 111, 10>>
    /\ result[c].outcome = "returned" /\ result[c].output_format = FmtNone

\* C11 as stated: 'echo hello' with no output_format gives stdout == ["hello"],
\* stderr == "" and return_code == 0.
C11_Original ==
    \A c \in Callers :
        EchoHello(c) =>
            /\ result[c].stdout = PyList(<<<<"h", "e", "l", "l", "o">>>>)
            /\ result[c].stderr.v = <<>>
            /\ result[c].return_code = 0

\* C11 amended: 'echo hello' with no output_format gives stdout ==
\* ["hello", ""], the empty text after the final newline being kept as the
\* last line, stderr == "" and return_code == 0.
C11_EchoHelloLines ==
    \A c \in Callers :
        EchoHello(c) =>
            /\ result[c].stdout = PyList(<<<<"h", "e", "l", "l", "o">>, <<>>>>)
            /\ result[c].stderr.kind \in {"bytes", "text"} /\ result[c].stderr.v = <<>>
            /\ result[c].return_code = 0

\* C11 witness: a session that ran 'echo hello' with no output_format.
C11_Witness ==
    \E c \in Callers : op[c] = "scope" /\ runs[c] = 1 /\ EchoHello(c)

\* C12: the exit status is data. A command whose output decodes returns a
\* result whose return_code is the status the remote side delivered, zero or
\* not; the only errors an operation ends with are those of connect, of
\* exec_command, of decoding and of the caller's own code; and after such a
\* result the session is still open for the next command.
C12_ExitStatusIsData ==
    \A c \in Callers :
        /\ outcome[c].status = "raised" =>
              outcome[c].error \in {"ConnectError", "TransportError", "UnicodeDecodeError", "BodyError"}
        /\ exits[c] # <<>> =>
              IF Decodable(lastout[c])
              THEN /\ result[c].outcome = "returned"
                   /\ result[c].return_code = LastExit(c)
                   /\ outcome[c].error # "UnicodeDecodeError"
                   /\ (op[c] = "scope" /\ outcome[c].status = "none") =>
                         /\ pc[c] = "body"
                         /\ conns[held[c]].open /\ conns[held[c]].closes = 0
              ELSE outcome[c] = [status |-> "raised", error |-> "UnicodeDecodeError"]

\* C12 witness: a session whose first command exited with 64 and which then
\* ran a second command.
C12_Witness ==
    \E c \in Callers :
        /\ op[c] = "scope" /\ pc[c] = "body"
        /\ exits[c] = <<64, 0>> /\ runs[c] = 2
        /\ result[c].return_code = 0

\* Base64 text as RFC 4648 writes it: whole quads of digits of the alphabet,
\* the last quad ending in at most two pads.
ValidBase64(t) ==
    /\ Len(t) > 0 /\ Len(t) % 4 = 0
    /\ \E pads \in 0..2 :
          /\ \A i \in 1..(Len(t) - pads) : t[i] \in Base64Alphabet
          /\ \A i \in (Len(t) - pads + 1)..Len(t) : t[i] = "="

\* Three whitespace-separated tokens, an accepted type, valid base64.
WellFormedKey(k) ==
    LET tokens == split_whitespace(k)
    IN /\ Len(tokens) = 3
       /\ tokens[1] \in KeyTypes
       /\ ValidBase64(tokens[2])

\* C13 as stated: for a text key is_ssh_pub_key returns true when the key has
\* exactly three whitespace-separated tokens, an accepted type and a valid
\* base64 second token, and returns false, without raising, for every other
\* text key.
C13_ValidatorDecides ==
    (kpc = "done" /\ kkey.kind = "text") => kres = PyBool(WellFormedKey(kkey.v))

\* C14: for an argument that is no string is_ssh_pub_key raises ValueError and
\* returns neither true nor false.
C14_NonTextRaises ==
    (kpc = "done" /\ kkey.kind \notin string_types) =>
        /\ kres = PyRaise("ValueError")
        /\ kres \notin {PyBool(TRUE), PyBool(FALSE)}

\* C14 witness: the validator was called with None and raised ValueError.
C14_Witness ==
    kpc = "done" /\ kkey = PyNone /\ kres = PyRaise("ValueError")

\* The lines of the remote file that are the key.
KeyLines(key) == {n \in DOMAIN authorized_keys : authorized_keys[n] = key}

\* Two calls, one after the other, installed the same key and both returned
\* with every command exiting 0.
InstalledTwice ==
    /\ ipc = "done" /\ icalls >= 2
    /\ iout.status = "returned" /\ ifailed = 0
    /\ iprev.ok /\ iprev.content = icontent

\* C15 as stated: after add_authorized_key has run twice, one call after the
\* other, with the same key, the remote authorized_keys file holds exactly
\* one line that is the key.
C15_InstalledOnce ==
    InstalledTwice => Cardinality(KeyLines(icontent)) = 1

\* The transport calls of one whole call: connect, the n first of the six
\* commands in the order mkdir, conditional append, chmod 700, chmod 600,
\* chown -R, restorecon, all on client 1.
InstallerTrace(n) ==
    <<<<"connect", 1>>>> \o
    SubSeq(<<<<"exec", 1, "mkdir -p ~/.ssh">>,
             <<"exec", 1, "grep -q '{key}' ~/.ssh/authorized_keys || echo '{key}' >> ~/.ssh/authorized_keys">>,
             <<"exec", 1, "chmod 700 ~/.ssh">>,
             <<"exec", 1, "chmod 600 ~/.ssh/authorized_keys">>,
             <<"exec", 1, "chown -R {ssh_user} ~/.ssh">>,
             <<"exec", 1, "command -v restorecon && restorecon -RvF ~/.ssh || true">>>>, 1, n)

\* C16: a call of add_authorized_key connects one client; while it is in its
\* with-block that client is open and has run the first commands of the six,
\* in their order; a call that returned ran all six, in order, on that one
\* client, and closed it once, after the last.
C16_InstallerOrder ==
    /\ Len(iconns) <= 1
    /\ ipc = "body" =>
          /\ Len(iconns) = 1 /\ iconns[1].open /\ iconns[1].closes = 0
          /\ Len(issued) < 6
          /\ itrace = InstallerTrace(Len(issued))
          /\ iconns[1].execs = Len(issued)
    /\ (ipc = "done" /\ iout.status = "returned") =>
          /\ Len(iconns) = 1 /\ ~iconns[1].open /\ iconns[1].closes = 1
          /\ itrace = InstallerTrace(6) \o <<<<"close", 1>>>>
          /\ iconns[1].execs = 6

\* C16 witness: a call returned after its six commands.
C16_Witness ==
    /\ ipc = "done" /\ iout.status = "returned"
    /\ Len(issued) = 6 /\ Len(itrace) = 8

\* C17 as stated: once a command of the installer has exited non-zero, no
\* later command is issued and the call ends in failure.
C17_FailsOnNonZero ==
    ifailed # 0 =>
        /\ Len(issued) = ifailed
        /\ ipc = "done" /\ iout.status = "raised"

\* How the call's key argument resolves, tried in the order stream, validated
\* key string, existing file: the content, or "InvalidKey".
ResolvesTo(key) ==
    IF key.kind = "stream" THEN strip(key.v)
    ELSE IF is_ssh_pub_key(key) = PyBool(TRUE) THEN strip(key.v)
    ELSE IF key.kind \in string_types /\ key.v \in DOMAIN LocalFiles THEN strip(LocalFiles[key.v])
    ELSE "InvalidKey"

\* C18 as stated: a call's key is the stream's content, else the key itself
\* when it validates, else the content of the file it names, and when none of
\* these resolves the call fails with the invalid-key error (AttributeError).
C18_KeyResolution ==
    icalls + (IF ipc \in {"connect", "body"} THEN 1 ELSE 0) > 0 =>
        IF ResolvesTo(ikey) = "InvalidKey"
        THEN ipc = "done" /\ iout = [status |-> "raised", error |-> "AttributeError"]
        ELSE icontent = ResolvesTo(ikey) /\ iout.error # "AttributeError"

\* A download that was given no local_file has returned.
DefaultedDownload ==
    /\ tpc = "done" /\ tout.status = "returned"
    /\ targs.op = "download" /\ targs.given = PyNone

\* C19 as stated: a download_file call given no local destination writes the
\* local path that is the basename of the remote path.
C19_Original ==
    DefaultedDownload => twritten = [side |-> "local", path |-> basename(targs.remote_file)]

\* C19 amended: a download_file call given no local destination writes the
\* local path equal to the whole remote path, directories included.
C19_DefaultIsRemotePath ==
    DefaultedDownload => twritten = [side |-> "local", path |-> targs.remote_file]

\* C19 witness: a download with no local destination of a remote file in a
\* directory has returned.
C19_Witness ==
    DefaultedDownload /\ targs.remote_file = <<"/", "d", "/", "f">>

\* The transfer call the arguments ask for.
ExpectedMethod ==
    IF targs.op = "download" THEN "get"
    ELSE IF targs.given.kind = "stream" THEN "putfo" ELSE "put"

\* C20: a call that opened its sftp channel did so on a client connected by
\* this call and no other; once it has ended, its transport calls are, in
\* order: connect, open_sftp, one transfer (putfo for a stream, put for a
\* path, get for a download), the close of the channel, the close of the
\* client, whether the transfer returned or raised.
C20_TransferOrder ==
    LET id == Len(tconns)
    IN /\ tpc = "sftp" =>
             /\ ttrace = <<<<"connect", id>>, <<"open_sftp", id>>>>
             /\ tsftp = "open"
             /\ tconns[id].open /\ tconns[id].owner = tcalls + 1
             /\ \A j \in 1..(id - 1) : tconns[j].owner # tcalls + 1 /\ ~tconns[j].open
       /\ (tpc = "done" /\ tout.error \in {"", "TransferError"}) =>
             /\ ttrace = <<<<"connect", id>>, <<"open_sftp", id>>, <<ExpectedMethod, id>>,
                           <<"sftp_close", id>>, <<"close", id>>>>
             /\ tsftp = "closed"
             /\ ~tconns[id].open /\ tconns[id].closes = 1 /\ tconns[id].owner = tcalls

\* C20 witness: a second call, an upload of a stream, whose putfo raised.
C20_Witness ==
    /\ tpc = "done" /\ tcalls = 2 /\ Len(tconns) = 2
    /\ targs.op = "upload" /\ targs.given.kind = "stream"
    /\ tout = [status |-> "raised", error |-> "TransferError"]

\* The call before the current one uploaded to the remote path the current
\* call has downloaded, to a local path other than the uploaded file's, and
\* both returned.
RoundTrip ==
    /\ tpc = "done" /\ tout.status = "returned" /\ targs.op = "download"
    /\ tprev.status = "returned" /\ tprev.args.op = "upload"
    /\ tprev.args.remote_file = targs.remote_file
    /\ tprev.args.given # targs.local_file

C23_ErrorsUnmasked ==
    (tpc = "done" /\ tout.status = "raised") =>
        tout.error = (IF ttrace[Len(ttrace)][1] = "connect_failed" THEN "ConnectError"
                      ELSE IF ttrace[Len(ttrace) - 1][1] = "open_sftp_failed" THEN "SSHException"
                      ELSE "TransferError")

\* A parameter as the claim resolves it: the argument when the caller
\* supplied one, the configuration's value when it is None.
Resolved(arg, configured) == IF arg = Unset THEN configured ELSE arg

\* C22 as stated: connect receives each of hostname, username, key file and
\* password as the caller supplied it, or the configuration's value, as it
\* was when the call was made, for a parameter left unset; the configuration
\* is as it was when the call was made.
C22_ParametersResolved ==
    ppc \in {"session", "done"} =>
        /\ pconnect.hostname = Resolved(pargs.hostname, pconfig.hostname)
        /\ pconnect.username = Resolved(pargs.username, pconfig.ssh_username)
        /\ pconnect.key_filename = Resolved(pargs.key_filename, pconfig.ssh_key)
        /\ pconnect.password = Resolved(pargs.password, pconfig.ssh_password)
        /\ settings = pconfig

\* C28: command() connects and executes with its one timeout, 10 when it is
\* given none, and so never executes with 120; run and execute_command
\* called with no timeout execute with 120.
C28_CommandTimeout ==
    /\ (ppc = "done" /\ pargs.op = "command") =>
          /\ pconnect.timeout = (IF pargs.timeout = Omitted THEN 10 ELSE pargs.timeout)
          /\ pexec = pconnect.timeout
          /\ pexec # 120
    /\ (ppc = "session" /\ pexec # 0) =>
          pexec = (IF pargs.timeout = Omitted THEN 120 ELSE pargs.timeout)

\* C28 witness: a command() called with no timeout has returned.
C28_Witness ==
    /\ ppc = "done" /\ pargs.op = "command" /\ pargs.timeout = Omitted
    /\ pexec = 10

\* The calls kind made on client id for caller c.
Events(c, kind, id) == {i \in DOMAIN trace[c] : trace[c][i] = <<kind, id>>}

\* C24: under every interleaving of the callers, no two of them hold the same
\* client; the client a caller holds was connected for it; the commands run
\* on a client and the closes of it are those of its own caller and no other
\* caller ever touches it.
C24_PrivateConnections ==
    /\ \A c, d \in Callers : (c # d /\ held[c] # 0 /\ held[d] # 0) => held[c] # held[d]
    /\ \A c \in Callers : held[c] # 0 => (held[c] \in DOMAIN conns /\ conns[held[c]].owner = c)
    /\ \A id \in DOMAIN conns :
          LET owner == conns[id].owner
          IN /\ held[owner] = id
             /\ conns[id].execs = Cardinality(Events(owner, "exec", id))
             /\ conns[id].closes = Cardinality(Events(owner, "close", id))
             /\ conns[id].open = (conns[id].closes = 0)
             /\ \A d \in Callers \ {owner} :
                   \A i \in DOMAIN trace[d] : trace[d][i][2] # id

\* C24 witness: a caller acquired and ran a command, another acquired after
\* it, ran a command and released, and the first one's client is still open
\* with its one command.
C24_Witness ==
    \E c, d \in Callers :
        /\ c # d /\ op[c] = "scope" /\ op[d] = "scope"
        /\ pc[c] = "body" /\ runs[c] = 1 /\ pc[d] = "done" /\ runs[d] = 1
        /\ held[c] = 1 /\ held[d] = 2
        /\ conns[1].open /\ conns[1].execs = 1 /\ ~conns[2].open

KeptLines == SelectSeq(RefSplit(RefRemoveQuotes(RawText)), LAMBDA l : l = <<>> \/ l[1] # "[")

\* C29 as stated: with no output_format an empty stdout stays the empty raw
\* value, and a non-empty stdout gives a list with at least one element.
C29_Original ==
    (Returned /\ xres.output_format = FmtNone) =>
        IF xout = <<>> THEN xres.stdout = PyBytes(<<>>)
        ELSE xres.stdout.kind = "list" /\ Len(xres.stdout.v) >= 1

\* C29 amended: an empty stdout is handed over as read, never decoded, split
\* or filtered, and with no output_format it is the stdout of the result; a
\* non-empty stdout with no output_format gives a list with one element for
\* each line not beginning with '[', which is the empty list when every line
\* begins with '['.
C29_EmptyStdoutRaw ==
    Returned =>
        /\ xout = <<>> => xres.handed = PyBytes(<<>>)
        /\ xres.output_format = FmtNone =>
              IF xout = <<>> THEN xres.stdout = PyBytes(<<>>)
              ELSE /\ xres.stdout.kind = "list"
                   /\ Len(xres.stdout.v) = Len(KeptLines)
                   /\ xres.stdout.v = <<>> <=>
                         \A l \in Range(RefSplit(RefRemoveQuotes(RawText))) : startswith_bracket(l)

\* C29 witness: a command without output and without output_format returned.
C29_Witness ==
    /\ Returned /\ xres.output_format = FmtNone
    /\ xout = <<>> /\ xres.stdout = PyBytes(<<>>) /\ xres.calls = <<>>

\* A non-empty output of banner lines only, which gives the empty list.
C29_BannerOnly ==
    /\ Returned /\ xres.output_format = FmtNone
    /\ xout = <<91, 10, 91>> /\ xres.stdout = PyList(<<>>)

\* The errors a call can end with before it reaches get_connection.
ResolutionErrors == {"AttributeError", "ValueError", "UnicodeEncodeError"}

\* C30: a call that ends with an error of the key resolution has connected no
\* client, issued no remote command, and left the remote authorized_keys as
\* it was when the call was made.
C30_ResolutionBeforeConnection ==
    [][(icalls' = icalls + 1 /\ iout'.status = "raised" /\ iout'.error \in ResolutionErrors) =>
          /\ iconns' = <<>> /\ itrace' = <<>> /\ issued' = <<>>
          /\ authorized_keys' = authorized_keys]_vars

\* C30 witness: after a call that installed a key, a call with a key that is
\* neither text nor a stream has ended with the validator's ValueError, and
\* another with a string that is no key and no file with AttributeError.
C30_Witness ==
    /\ ipc = "done" /\ icalls = 2 /\ iprev.ok /\ authorized_keys # <<>>
    /\ iout.status = "raised" /\ iconns = <<>> /\ issued = <<>>
    /\ \/ ikey = PyNone /\ iout.error = "ValueError"
       \/ ikey = PyText(<<"n", "o">>) /\ iout.error = "AttributeError"

\* The installers whose second command has returned after grep found no
\* line matching the key and echo exited 0.
Appenders == {i \in Installers : rissued[i] >= 2 /\ rgrep[i] # 0 /\ rstatus[i] = 0}

\* C25: the check and the append are two steps. Every installer whose check
\* found the key absent appends its line, whatever the others have appended
\* since its check: the file holds one key line for each such installer, two
\* when both checks found the key absent.
C25_CheckThenAppend ==
    /\ \A i \in Appenders :
          Cardinality({n \in DOMAIN rfile : rfile[n] = rkey[i]}) = Cardinality(Appenders)
    /\ Len(rfile) = Cardinality(Appenders)

\* C25 witness: both installers returned after their six commands, both
\* checks found the key absent, and the file holds the key line twice.
C25_Witness ==
    /\ \A i \in Installers : rpc[i] = "done" /\ rissued[i] = 6 /\ rgrep[i] = 1
    /\ rkey[1] = rkey[2]
    /\ rfile = <<rkey[1], rkey[1]>>

\* C27 as stated: once the timeout has elapsed the call ends, by the remote
\* process's exit or by the timeout failure, whether or not the remote
\* process ever exits.
C27_BoundedWait == (xelapsed = MaxTicks) ~> (xpc = "done")

====
